---- MODULE Spec2Model ----
(***************************************************************************)
(* Invoice line-item extraction (custom_parsers.py, parse.py).             *)
(*                                                                         *)
(* A document is a sequence of pages; a page carries the text lines and    *)
(* the table grids the page token provider returns for it.  A text line    *)
(* is a record whose field k names the class of strings the line belongs   *)
(* to with respect to the regular expressions and substring tests of the   *)
(* scanner that reads it; the remaining fields carry the matched groups.   *)
(* Text taken from a line into a record is written as the position         *)
(* <<page, line>> it was taken from, so a description is the sequence of   *)
(* the non-empty pieces joined with single spaces, and the empty sequence  *)
(* is the empty string.  The text of a table cell is a sequence of words   *)
(* and whitespace characters.  Each scanner has a specification of its     *)
(* own over its own documents; the variables a specification does not use  *)
(* keep their initial values.                                              *)
(***************************************************************************)
EXTENDS Integers, Sequences, FiniteSets, TLC

VARIABLES
    text,                 \* phrases present in the first page's text
    vendor,               \* vendor identifier ("" when none)
    include_zero_qty,     \* the caller's zero-quantity switch
    doc,                  \* the document: a sequence of pages
    pc,                   \* control position
    p,                    \* page being scanned (1-based)
    i,                    \* cursor in the page's lines (1-based: code's i + 1)
    in_items,             \* the inside-item-section flag
    table_idx,            \* table being read in the page (1-based)
    pending_item_number,  \* Luxury Brands carry-over (<<>> is None)
    scanned,              \* pages whose text or tables were extracted
    items,                \* the output sequence
    calls,                \* the parsers invoked so far, with what they returned
    custom_items,         \* what parse_with_custom_parser returned
    queue,                \* documents parsed after this one in the same process
    results,              \* what the earlier parse calls returned
    last_header,          \* generic parser: header of the last items table
                          \* (<<>> is None)
    invoice_format,       \* Lamy: the format of the page ("" is None)
    cleaned,              \* Rediform: the repaired text of the page
    regular_items,        \* Chartpak parse_with_backorders: the shipped items
    backorder_items,      \* Chartpak parse_with_backorders: the back orders
    pdf_file,             \* main: what is found at pdf_path
    output,               \* main: the object written to output_path
                          \* (<<>> when nothing was written)
    exit_code,            \* main: the exit code (-1 while running)
    error,                \* main: class of the exception raised ("" is none)
    registry              \* the module's CUSTOM_PARSERS dictionary

vars == <<text, vendor, include_zero_qty, doc, pc, p, i, in_items, table_idx,
          pending_item_number, scanned, items, calls, custom_items, queue,
          results, last_header, invoice_format, cleaned, regular_items,
          backorder_items, pdf_file, output, exit_code, error, registry>>

callVars == <<calls, custom_items, queue, results, last_header>>

\* The variables of single scanners.
backorderVars == <<regular_items, backorder_items>>

mainVars == <<pdf_file, output, exit_code, error>>

ownVars == <<cleaned, backorderVars, mainVars, registry>>

\* CUSTOM_PARSERS = {"itoya": ItoyaParser, ...} as the module binds it when
\* it is imported: each key with the name of its parser class.
Registry ==
    [itoya |-> "ItoyaParser", luxury_brands |-> "LuxuryBrandsParser",
     rediform |-> "RediformParser", toms_studio |-> "TomsStudioParser",
     coles |-> "ColesParser", lamy |-> "LamyParser", pilot |-> "PilotParser",
     montblanc |-> "MontblancParser", lighthouse |-> "LighthouseParser",
     retro51 |-> "Retro51Parser", twsbi |-> "TWSBIParser",
     writeusa |-> "WriteUSAParser", kenro |-> "KenroParser",
     avanti |-> "AvantiParser", plotter |-> "PlotterParser",
     tsl |-> "TSLParser", exaclair |-> "ExaclairParser",
     uniball |-> "UniBallParser", ameico |-> "AmeicoParser",
     chartpak |-> "ChartpakParser", jpt |-> "JPTParser",
     wearingeul |-> "WearingeulParser",
     elite_accessories |-> "EliteAccessoriesParser"]

\* The variables of parse_with_backorders and of main before they are
\* entered, and the registry of the imported module.
OwnInit ==
    /\ registry = Registry
    /\ regular_items = <<>>
    /\ backorder_items = <<>>
    /\ pdf_file = "pdf"
    /\ output = <<>>
    /\ exit_code = -1
    /\ error = ""

scanVars == <<doc, include_zero_qty, p, i, in_items, table_idx,
              pending_item_number, scanned, items>>

----------------------------------------------------------------------------
(* Bounds of the model.                                                    *)

MaxPhrases == 3

\* Lines of a document, page breaks included.
MaxDocLen == 4

\* Data rows of a table.
MaxRows == 2

\* Lines of a document, page breaks included, where the scanners are
\* checked side by side.
MaxScanLen == 3

\* Lines of a document, page breaks included, where a document is parsed
\* again after another one.
MaxAgainLen == 3

----------------------------------------------------------------------------
(* Vendor Detector: detect_vendor.                                         *)

\* The phrases a first page may contain.  Each is a string the detector
\* tests for, or a string that contains one (or whose lower-casing does).
Phrases ==
    { "ITOYA", "Item Description UOM", "Luxury Brands", "LuxuryBrands.com",
      "Rediform", "REDIFORM", "Tom's Studio", "Coles", "McAlpine Park Drive",
      "Lamy USA", "LAMY", "PCAINV", "DALLAS, TX", "Montblanc North America",
      "Lighthouse Publications", "Retro 1951", "retro51.com", "TWSBI INC",
      "Write USA LLC", "Kenro Industries", "AVANTI PRESS", "PLOTTER USA",
      "support@PlotterUSA.com", "ORDER NUMBER", "SL_", "EXACLAIR, INC.",
      "EXACLAIR", "uni-ball Corporation", "uni-ball", "Ameico",
      "New Milford CT", "CHARTPAK", "CHARTPAK, INC", "JPT AMERICA",
      "www.JPTAmerica.com", "Abledesign Entertainment", "Order Sheet",
      "Elite Accessories", "ELITE ACCESSORIES" }

\* The phrases of which s is a substring (Python's  s in text).
Containing(s) ==
    CASE s = "EXACLAIR" -> {"EXACLAIR", "EXACLAIR, INC."}
      [] s = "CHARTPAK" -> {"CHARTPAK", "CHARTPAK, INC"}
      [] s = "uni-ball" -> {"uni-ball", "uni-ball Corporation"}
      [] OTHER -> {s}

\* The phrases whose lower-casing contains s (Python's  s in text.lower()).
ContainingLower(s) ==
    CASE s = "luxurybrands" -> {"LuxuryBrands.com"}
      [] s = "plotterusa.com" -> {"support@PlotterUSA.com"}
      [] s = "jptamerica" -> {"www.JPTAmerica.com"}
      [] OTHER -> {}

In(s, t) == Containing(s) \cap t # {}

InLower(s, t) == ContainingLower(s) \cap t # {}

\* The predicate of each branch of detect_vendor.
VendorPredicate(v, t) ==
    CASE v = "itoya" -> In("ITOYA", t) /\ In("Item Description UOM", t)
      [] v = "luxury_brands" -> In("Luxury Brands", t) \/ InLower("luxurybrands", t)
      [] v = "rediform" -> In("Rediform", t) \/ In("REDIFORM", t)
      [] v = "toms_studio" -> In("Tom's Studio", t)
      [] v = "coles" -> In("Coles", t) /\ In("McAlpine Park Drive", t)
      [] v = "lamy" -> In("Lamy USA", t) \/ In("LAMY", t)
      [] v = "pilot" -> In("PCAINV", t) /\ In("DALLAS, TX", t)
      [] v = "montblanc" -> In("Montblanc North America", t)
      [] v = "lighthouse" -> In("Lighthouse Publications", t)
      [] v = "retro51" -> In("Retro 1951", t) \/ In("retro51.com", t)
      [] v = "twsbi" -> In("TWSBI INC", t)
      [] v = "writeusa" -> In("Write USA LLC", t)
      [] v = "kenro" -> In("Kenro Industries", t)
      [] v = "avanti" -> In("AVANTI PRESS", t)
      [] v = "plotter" -> In("PLOTTER USA", t) \/ InLower("plotterusa.com", t)
      [] v = "tsl" -> In("ORDER NUMBER", t) /\ In("SL_", t)
      [] v = "exaclair" -> In("EXACLAIR, INC.", t) \/ In("EXACLAIR", t)
      [] v = "uniball" -> In("uni-ball Corporation", t) \/ In("uni-ball", t)
      [] v = "ameico" -> In("Ameico", t) /\ In("New Milford CT", t)
      [] v = "chartpak" -> In("CHARTPAK", t) \/ In("CHARTPAK, INC", t)
      [] v = "jpt" -> In("JPT AMERICA", t) \/ InLower("jptamerica", t)
      [] v = "wearingeul" -> In("Abledesign Entertainment", t) \/ In("Order Sheet", t)
      [] v = "elite_accessories" ->
             In("Elite Accessories", t) \/ In("ELITE ACCESSORIES", t)
      [] OTHER -> FALSE

\* detect_vendor with the rediform branch tested before the luxury_brands one.
detect_vendor_swapped(t) ==
    IF VendorPredicate("itoya", t) THEN "itoya"
    ELSE IF VendorPredicate("rediform", t) THEN "rediform"
    ELSE IF VendorPredicate("luxury_brands", t) THEN "luxury_brands"
    ELSE IF VendorPredicate("toms_studio", t) THEN "toms_studio"
    ELSE IF VendorPredicate("coles", t) THEN "coles"
    ELSE IF VendorPredicate("lamy", t) THEN "lamy"
    ELSE IF VendorPredicate("pilot", t) THEN "pilot"
    ELSE IF VendorPredicate("montblanc", t) THEN "montblanc"
    ELSE IF VendorPredicate("lighthouse", t) THEN "lighthouse"
    ELSE IF VendorPredicate("retro51", t) THEN "retro51"
    ELSE IF VendorPredicate("twsbi", t) THEN "twsbi"
    ELSE IF VendorPredicate("writeusa", t) THEN "writeusa"
    ELSE IF VendorPredicate("kenro", t) THEN "kenro"
    ELSE IF VendorPredicate("avanti", t) THEN "avanti"
    ELSE IF VendorPredicate("plotter", t) THEN "plotter"
    ELSE IF VendorPredicate("tsl", t) THEN "tsl"
    ELSE IF VendorPredicate("exaclair", t) THEN "exaclair"
    ELSE IF VendorPredicate("uniball", t) THEN "uniball"
    ELSE IF VendorPredicate("ameico", t) THEN "ameico"
    ELSE IF VendorPredicate("chartpak", t) THEN "chartpak"
    ELSE IF VendorPredicate("jpt", t) THEN "jpt"
    ELSE IF VendorPredicate("wearingeul", t) THEN "wearingeul"
    ELSE IF VendorPredicate("elite_accessories", t) THEN "elite_accessories"
    ELSE ""

\* A variant whose Itoya branch returns an identifier that is no key of the
\* registry.
detect_vendor_unregistered(t) ==
    IF VendorPredicate("itoya", t) THEN "itoya_usa" ELSE detect_vendor_swapped(t)

detect_vendor(t) ==
    IF VendorPredicate("itoya", t) THEN "itoya"
    ELSE IF VendorPredicate("luxury_brands", t) THEN "luxury_brands"
    ELSE IF VendorPredicate("rediform", t) THEN "rediform"
    ELSE IF VendorPredicate("toms_studio", t) THEN "toms_studio"
    ELSE IF VendorPredicate("coles", t) THEN "coles"
    ELSE IF VendorPredicate("lamy", t) THEN "lamy"
    ELSE IF VendorPredicate("pilot", t) THEN "pilot"
    ELSE IF VendorPredicate("montblanc", t) THEN "montblanc"
    ELSE IF VendorPredicate("lighthouse", t) THEN "lighthouse"
    ELSE IF VendorPredicate("retro51", t) THEN "retro51"
    ELSE IF VendorPredicate("twsbi", t) THEN "twsbi"
    ELSE IF VendorPredicate("writeusa", t) THEN "writeusa"
    ELSE IF VendorPredicate("kenro", t) THEN "kenro"
    ELSE IF VendorPredicate("avanti", t) THEN "avanti"
    ELSE IF VendorPredicate("plotter", t) THEN "plotter"
    ELSE IF VendorPredicate("tsl", t) THEN "tsl"
    ELSE IF VendorPredicate("exaclair", t) THEN "exaclair"
    ELSE IF VendorPredicate("uniball", t) THEN "uniball"
    ELSE IF VendorPredicate("ameico", t) THEN "ameico"
    ELSE IF VendorPredicate("chartpak", t) THEN "chartpak"
    ELSE IF VendorPredicate("jpt", t) THEN "jpt"
    ELSE IF VendorPredicate("wearingeul", t) THEN "wearingeul"
    ELSE IF VendorPredicate("elite_accessories", t) THEN "elite_accessories"
    ELSE ""

\* The subsets of S with at most n elements.
RECURSIVE SubsetsUpTo(_, _)
SubsetsUpTo(S, n) ==
    IF n = 0 THEN {{}}
    ELSE LET prev == SubsetsUpTo(S, n - 1)
         IN  prev \cup {s \cup {x} : s \in prev, x \in S}

\* The first-page texts of the model: at most MaxPhrases phrases.
Texts == SubsetsUpTo(Phrases, MaxPhrases)

\* A call of detect_vendor on the first page's text.
Detect ==
    /\ pc = "detect"
    /\ vendor' = detect_vendor(text)
    /\ pc' = "detected"
    /\ UNCHANGED <<text, ownVars, invoice_format, scanVars, callVars>>

InitDetect ==
    /\ text \in Texts
    /\ vendor = ""
    /\ include_zero_qty = TRUE
    /\ doc = <<>>
    /\ pc = "detect"
    /\ p = 0
    /\ i = 0
    /\ in_items = FALSE
    /\ table_idx = 0
    /\ pending_item_number = <<>>
    /\ scanned = {}
    /\ items = <<>>
    /\ calls = <<>>
    /\ custom_items = <<>>
    /\ queue = <<>>
    /\ results = <<>>
    /\ last_header = <<>>
    /\ invoice_format = ""
    /\ cleaned = <<>>
    /\ OwnInit

NextDetect == Detect

SpecDetect == InitDetect /\ [][NextDetect]_vars

----------------------------------------------------------------------------
(* Documents.                                                              *)

\* The sequences over S of length at most n.
SeqsUpTo(S, n) == UNION {[1..m -> S] : m \in 0..n}

PageBreak == [k |-> "pagebreak"]

\* The pages of a flat sequence of lines and page breaks, each page the text
\* lines between two breaks.  A page without lines is a page whose
\* extract_text() is empty.
RECURSIVE SplitPages(_)
SplitPages(s) ==
    IF s = <<>> THEN << <<>> >>
    ELSE LET rest == SplitPages(Tail(s))
         IN  IF Head(s) = PageBreak
             THEN << <<>> >> \o rest
             ELSE << <<Head(s)>> \o rest[1] >> \o Tail(rest)

\* The documents whose lines are drawn from the line classes L.
TextDocs(L, len) ==
    { [n \in 1..Len(SplitPages(s)) |-> [lines |-> SplitPages(s)[n], tables |-> <<>>]] :
        s \in SeqsUpTo(L \cup {PageBreak}, len) }

\* The quantities printed on the lines of the model: zero and not zero.
Quantities == {0, 2}

\* The text taken from field f of line ln of page pg.
Piece(pg, ln, f) == [pg |-> pg, ln |-> ln, f |-> f]

\* The state before a scanner's parse(pdf_path, include_zero_qty) is entered,
\* with the documents in later to follow.
ScanInitQueue(v, docs, later) ==
    /\ text = {}
    /\ vendor = v
    /\ include_zero_qty \in BOOLEAN
    /\ doc \in docs
    /\ pc = "page"
    /\ p = 1
    /\ i = 0
    /\ in_items = FALSE
    /\ table_idx = 0
    /\ pending_item_number = <<>>
    /\ scanned = {}
    /\ items = <<>>
    /\ calls = <<>>
    /\ custom_items = <<>>
    /\ queue \in later
    /\ results = <<>>
    /\ last_header = <<>>
    /\ invoice_format = ""
    /\ cleaned = <<>>
    /\ OwnInit

\* The same, for the only document of the process.
ScanInit(v, docs) == ScanInitQueue(v, docs, {<<>>})

----------------------------------------------------------------------------
(* ChartpakParser.parse.                                                   *)
(*   hdr    contains SHIPPED, UNIT and CATALOG                             *)
(*   end    contains SUB-TOTAL or TOTAL (and is no hdr)                    *)
(*   blank  line.strip() is empty                                          *)
(*   f1     matches Format 1, q the shipped quantity; ok is FALSE when a   *)
(*          price group such as 1.2.3 is no float                          *)
(*   f2     matches Format 2 and not Format 1 (back order only)            *)
(*   other  any other line                                                 *)

ChartpakLines ==
    {[k |-> "hdr"], [k |-> "end"], [k |-> "blank"], [k |-> "other"]}
    \cup {[k |-> "f1", q |-> q, ok |-> TRUE] : q \in Quantities}
    \cup {[k |-> "f1", q |-> 2, ok |-> FALSE]}
    \cup {[k |-> "f2", ok |-> b] : b \in BOOLEAN}

\* The record put before the records of its.
ChartpakRecord_prepended(its, line, pg, ln) ==
    <<[quantity |-> IF line.k = "f1" THEN line.q ELSE 0,
       item_number |-> <<Piece(pg, ln, "code")>>,
       sku |-> <<Piece(pg, ln, "code")>>,
       product_description |-> <<Piece(pg, ln, "desc")>>,
       pg |-> pg, ln |-> ln]>> \o its

\* The record of a line matching Format 1 or Format 2, appended to its.
ChartpakRecord(its, line, pg, ln) ==
    Append(its, [quantity |-> IF line.k = "f1" THEN line.q ELSE 0,
                 item_number |-> <<Piece(pg, ln, "code")>>,
                 sku |-> <<Piece(pg, ln, "code")>>,
                 product_description |-> <<Piece(pg, ln, "desc")>>,
                 pg |-> pg, ln |-> ln])

\* for page in pdf.pages: text = page.extract_text(); if not text: continue
ChartpakPage ==
    /\ pc = "page"
    /\ vendor = "chartpak"
    /\ IF p > Len(doc)
       THEN pc' = "done" /\ UNCHANGED <<p, i, in_items, scanned>>
       ELSE /\ scanned' = scanned \cup {p}
            /\ IF doc[p].lines = <<>>
               THEN p' = p + 1 /\ UNCHANGED <<pc, i, in_items>>
               ELSE pc' = "line" /\ i' = 1 /\ in_items' = FALSE /\ p' = p
    /\ UNCHANGED <<callVars, text, ownVars, invoice_format, vendor,
                   include_zero_qty, doc, table_idx, pending_item_number, items>>

\* One iteration of  for line in lines  (or its end).
ChartpakLine ==
    /\ pc = "line"
    /\ vendor = "chartpak"
    /\ IF i > Len(doc[p].lines)
       THEN pc' = "page" /\ p' = p + 1 /\ UNCHANGED <<i, in_items, items>>
       ELSE LET line == doc[p].lines[i]
            IN  /\ i' = i + 1
                /\ UNCHANGED <<pc, p>>
                /\ IF line.k = "hdr"
                   THEN in_items' = TRUE /\ items' = items
                   ELSE IF line.k = "end"
                   THEN in_items' = FALSE /\ items' = items
                   ELSE /\ in_items' = in_items
                        /\ IF in_items /\ line.k = "f1"
                           THEN IF line.q = 0 /\ ~include_zero_qty
                                THEN items' = items
                                ELSE IF line.ok
                                THEN items' = ChartpakRecord(items, line, p, i)
                                ELSE items' = items
                           ELSE IF in_items /\ line.k = "f2"
                           THEN IF line.ok
                                THEN items' = ChartpakRecord(items, line, p, i)
                                ELSE items' = items
                           ELSE items' = items
    /\ UNCHANGED <<callVars, text, ownVars, invoice_format, vendor,
                   include_zero_qty, doc, table_idx, pending_item_number,
                   scanned>>

InitChartpak == ScanInit("chartpak", TextDocs(ChartpakLines, MaxDocLen))

NextChartpak == ChartpakPage \/ ChartpakLine

SpecChartpak == InitChartpak /\ [][NextChartpak]_vars

----------------------------------------------------------------------------
(* LuxuryBrandsParser.parse.  Classes of the stripped line:                *)
(*   blank    empty                                                        *)
(*   ord      a bare ordinal: matches ^\d+\.$                              *)
(*   ordtext  starts with an ordinal (^\d+\.) and matches neither ^\d+\.$  *)
(*            nor the item pattern                                         *)
(*   item     matches the item pattern  N. TEXT QTY $RATE $AMOUNT          *)
(*   tail     does not start with an ordinal; with "N. " put before it,    *)
(*            it matches the item pattern                                  *)
(*   plain    any other line without "Total"                               *)
(*   total    any other line containing "Total"                            *)
(* Fields of item and tail: q the quantity group, ok whether the rate and  *)
(* amount groups are floats, d whether the description split off          *)
(* full_text is non-empty, tot (tail) whether the line contains "Total".   *)

LuxuryLines ==
    {[k |-> "blank"], [k |-> "ord"], [k |-> "ordtext"], [k |-> "plain"],
     [k |-> "total"]}
    \cup {[k |-> "item", q |-> q, ok |-> TRUE, d |-> TRUE] : q \in Quantities}
    \cup {[k |-> "item", q |-> 2, ok |-> TRUE, d |-> FALSE],
          [k |-> "item", q |-> 2, ok |-> FALSE, d |-> TRUE]}
    \cup {[k |-> "tail", q |-> q, ok |-> TRUE, d |-> TRUE, tot |-> FALSE] :
             q \in Quantities}
    \cup {[k |-> "tail", q |-> 2, ok |-> TRUE, d |-> TRUE, tot |-> TRUE]}

\* re.match(r"^\d+\.", line)
LuxuryStartsWithOrdinal(line) == line.k \in {"ord", "ordtext", "item"}

\* "Total" in line
LuxuryHasTotal(line) == line.k = "total" \/ (line.k = "tail" /\ line.tot)

\* The joined line left as the line read: the fragment is not put before it.
LuxuryPrefixed_unjoined(line) == line

\* line = pending_item_number + " " + line : the class of the joined line.
LuxuryPrefixed(line) ==
    IF line.k = "tail"
    THEN [k |-> "item", q |-> line.q, ok |-> line.ok, d |-> line.d]
    ELSE [k |-> "ordtext"]

\* Whether the line after line ln is appended to the description.
LuxuryContinues(lines, ln) ==
    /\ ln + 1 <= Len(lines)
    /\ ~LuxuryStartsWithOrdinal(lines[ln + 1])
    /\ lines[ln + 1].k # "blank"
    /\ ~LuxuryHasTotal(lines[ln + 1])

\* The record of the item line (class m) read at line ln of page pg; frag is
\* the fragment put before the line (<<>> when none was).
LuxuryRecord(m, lines, pg, ln, frag) ==
    [quantity |-> m.q,
     item_number |-> <<Piece(pg, ln, "code")>>,
     sku |-> <<Piece(pg, ln, "code")>>,
     product_description |->
         (IF m.d THEN <<Piece(pg, ln, "desc")>> ELSE <<>>)
         \o (IF LuxuryContinues(lines, ln) THEN <<Piece(pg, ln + 1, "line")>> ELSE <<>>),
     frag |-> frag, pg |-> pg, ln |-> ln]

\* Mutant of LuxuryPage: a page without text clears the pending fragment.
LuxuryPage_forgetful ==
    /\ pc = "page"
    /\ vendor = "luxury_brands"
    /\ IF p > Len(doc)
       THEN pc' = "done" /\ UNCHANGED <<p, i, scanned, pending_item_number>>
       ELSE /\ scanned' = scanned \cup {p}
            /\ IF doc[p].lines = <<>>
               THEN p' = p + 1 /\ pending_item_number' = <<>> /\ UNCHANGED <<pc, i>>
               ELSE pc' = "line" /\ i' = 1 /\ p' = p /\ UNCHANGED pending_item_number
    /\ UNCHANGED <<callVars, text, ownVars, invoice_format, vendor,
                   include_zero_qty, doc, in_items, table_idx, items>>

\* for page in pdf.pages: text = page.extract_text(); if not text: continue
\* After the last page: the old-format pass over the pages' tables, entered
\* when items is empty; the documents here carry no tables, so that pass
\* appends nothing.
LuxuryPage ==
    /\ pc = "page"
    /\ vendor = "luxury_brands"
    /\ IF p > Len(doc)
       THEN pc' = "done" /\ UNCHANGED <<p, i, scanned>>
       ELSE /\ scanned' = scanned \cup {p}
            /\ IF doc[p].lines = <<>>
               THEN p' = p + 1 /\ UNCHANGED <<pc, i>>
               ELSE pc' = "line" /\ i' = 1 /\ p' = p
    /\ UNCHANGED <<callVars, text, ownVars, invoice_format, vendor,
                   include_zero_qty, doc, in_items, table_idx,
                   pending_item_number, items>>

\* One iteration of  while i < len(lines)  (or its end).
LuxuryLine ==
    /\ pc = "line"
    /\ vendor = "luxury_brands"
    /\ IF i > Len(doc[p].lines)
       THEN pc' = "page" /\ p' = p + 1
            /\ UNCHANGED <<i, pending_item_number, items>>
       ELSE LET lines == doc[p].lines
                raw == lines[i]
                joins == /\ pending_item_number # <<>>
                         /\ raw.k # "blank"
                         /\ ~LuxuryStartsWithOrdinal(raw)
                line == IF joins THEN LuxuryPrefixed(raw) ELSE raw
                frag == IF joins THEN pending_item_number ELSE <<>>
                pend == IF joins THEN <<>> ELSE pending_item_number
            IN  /\ UNCHANGED <<pc, p>>
                /\ IF line.k = "ord"
                   THEN /\ pending_item_number' = <<Piece(p, i, "ord")>>
                        /\ i' = i + 1
                        /\ items' = items
                   ELSE /\ pending_item_number' = pend
                        /\ IF line.k = "item"
                           THEN IF line.q = 0 /\ ~include_zero_qty
                                THEN i' = i + 1 /\ items' = items
                                ELSE /\ i' = IF LuxuryContinues(lines, i)
                                             THEN i + 2 ELSE i + 1
                                     /\ items' =
                                          IF line.ok
                                          THEN Append(items,
                                                 LuxuryRecord(line, lines, p, i, frag))
                                          ELSE items
                           ELSE i' = i + 1 /\ items' = items
    /\ UNCHANGED <<callVars, text, ownVars, invoice_format, vendor,
                   include_zero_qty, doc, in_items, table_idx, scanned>>

InitLuxury == ScanInit("luxury_brands", TextDocs(LuxuryLines, MaxDocLen))

NextLuxury == LuxuryPage \/ LuxuryLine

SpecLuxury == InitLuxury /\ [][NextLuxury]_vars

----------------------------------------------------------------------------
(* MontblancParser.parse.  Classes of the line:                            *)
(*   hdr       contains Article, Description and QTY                       *)
(*   subtotal  starts with SUBTOTAL or Page :  (footer pattern and the     *)
(*             pattern that stops a description)                           *)
(*   footer    starts with Freight, TOTAL, Net Weight or Montblanc         *)
(*             (footer pattern only)                                       *)
(*   a         matches Format A, q the quantity group                      *)
(*   b         matches Format B, q the quantity group                      *)
(*   stop      starts with DELIVERY: or with five digits, matching neither *)
(*             format                                                      *)
(*   meta      starts with Customer PO:, SO:, Tracking or Gold Unit        *)
(*   blank     line.strip() is empty                                       *)
(*   plain     any other line                                              *)
(* The price groups [\d,]+\.\d{2} are floats once the commas are removed.  *)

MontblancLines ==
    {[k |-> "hdr"], [k |-> "subtotal"], [k |-> "footer"], [k |-> "stop"],
     [k |-> "meta"], [k |-> "blank"], [k |-> "plain"]}
    \cup {[k |-> "a", q |-> q] : q \in Quantities}
    \cup {[k |-> "b", q |-> 2]}

\* re.match(r"^(SUBTOTAL|Freight|TOTAL|Net Weight|Montblanc|Page\s*:)", ...)
MontblancFooter(line) == line.k \in {"subtotal", "footer"}

\* Mutant of MontblancStops: only an item line stops the collection.
MontblancStops_items(line) == line.k \in {"a", "b"}

\* re.match(r"^(\d{5,}|SUBTOTAL|DELIVERY:|Page\s*:)", next_line)
MontblancStops(line) == line.k \in {"a", "b", "stop", "subtotal"}

\* next_line and not re.match(r"^(Customer PO:|SO:|Tracking|Gold Unit)", ...)
MontblancDescribes(line) == line.k \notin {"blank", "meta"}

\* Where the loop collecting the lines after an item line, entered at line
\* j, leaves the cursor.
RECURSIVE MontblancBreak(_, _)
MontblancBreak(lines, j) ==
    IF j > Len(lines) \/ MontblancStops(lines[j])
    THEN j
    ELSE MontblancBreak(lines, j + 1)

\* description_parts of the lines j..(to - 1) of page pg.
RECURSIVE MontblancParts(_, _, _, _)
MontblancParts(lines, pg, j, to) ==
    IF j >= to
    THEN <<>>
    ELSE (IF MontblancDescribes(lines[j]) THEN <<Piece(pg, j, "line")>> ELSE <<>>)
         \o MontblancParts(lines, pg, j + 1, to)

\* The record of the item line ln of page pg, with description desc.
MontblancRecord(line, pg, ln, desc) ==
    [quantity |-> line.q,
     item_number |-> <<Piece(pg, ln, "code")>>,
     sku |-> <<Piece(pg, ln, "code")>>,
     product_description |-> desc,
     pg |-> pg, ln |-> ln]

\* for page in pdf.pages: ... in_items = False; i = 0
MontblancPage ==
    /\ pc = "page"
    /\ vendor = "montblanc"
    /\ IF p > Len(doc)
       THEN pc' = "done" /\ UNCHANGED <<p, i, in_items, scanned>>
       ELSE /\ scanned' = scanned \cup {p}
            /\ IF doc[p].lines = <<>>
               THEN p' = p + 1 /\ UNCHANGED <<pc, i, in_items>>
               ELSE pc' = "line" /\ i' = 1 /\ in_items' = FALSE /\ p' = p
    /\ UNCHANGED <<callVars, text, ownVars, invoice_format, vendor,
                   include_zero_qty, doc, table_idx, pending_item_number, items>>

\* One iteration of the outer  while i < len(lines)  (or its end).  After
\* a Format A line the iteration goes on in MontblancContinuation.
MontblancLine ==
    /\ pc = "line"
    /\ vendor = "montblanc"
    /\ IF i > Len(doc[p].lines)
       THEN pc' = "page" /\ p' = p + 1 /\ UNCHANGED <<i, in_items, items>>
       ELSE LET lines == doc[p].lines
                line == lines[i]
            IN  /\ p' = p
                /\ IF line.k = "hdr"
                   THEN in_items' = TRUE /\ i' = i + 1 /\ items' = items /\ pc' = pc
                   ELSE /\ in_items' = in_items
                        /\ IF ~in_items \/ MontblancFooter(line)
                           THEN i' = i + 1 /\ items' = items /\ pc' = pc
                           ELSE IF line.k \in {"a", "b"} /\ line.q = 0 /\ ~include_zero_qty
                           THEN i' = i + 1 /\ items' = items /\ pc' = pc
                           ELSE IF line.k = "a"
                           THEN /\ items' = Append(items,
                                       MontblancRecord(line, p, i, <<Piece(p, i, "desc")>>))
                                /\ i' = i + 1
                                /\ pc' = "cont"
                           ELSE IF line.k = "b"
                           THEN LET to == MontblancBreak(lines, i + 1)
                                IN  /\ items' = Append(items,
                                           MontblancRecord(line, p, i,
                                               MontblancParts(lines, p, i + 1, to)))
                                    /\ i' = to
                                    /\ pc' = pc
                           ELSE i' = i + 1 /\ items' = items /\ pc' = pc
    /\ UNCHANGED <<callVars, text, ownVars, invoice_format, vendor,
                   include_zero_qty, doc, table_idx, pending_item_number,
                   scanned>>

\* One iteration of the loop after a Format A record was appended:
\* items[-1]["product_description"] += " " + next_line
MontblancContinuation ==
    /\ pc = "cont"
    /\ vendor = "montblanc"
    /\ IF i > Len(doc[p].lines) \/ MontblancStops(doc[p].lines[i])
       THEN pc' = "line" /\ UNCHANGED <<i, items>>
       ELSE /\ i' = i + 1
            /\ pc' = pc
            /\ items' =
                 IF MontblancDescribes(doc[p].lines[i])
                 THEN [items EXCEPT ![Len(items)].product_description =
                                        @ \o <<Piece(p, i, "line")>>]
                 ELSE items
    /\ UNCHANGED <<callVars, text, ownVars, invoice_format, vendor,
                   include_zero_qty, doc, p, in_items, table_idx,
                   pending_item_number, scanned>>

InitMontblanc == ScanInit("montblanc", TextDocs(MontblancLines, MaxDocLen))

NextMontblanc == MontblancPage \/ MontblancLine \/ MontblancContinuation

SpecMontblanc == InitMontblanc /\ [][NextMontblanc]_vars

----------------------------------------------------------------------------
(* Table cells.  The text of a cell is a sequence of tokens: the           *)
(* whitespace tokens " " and "\n", and words, each standing for a run of   *)
(* characters that are not whitespace (the header words keep their inner   *)
(* space, no code splits them).  The empty sequence is the empty string    *)
(* and the None cell, for every reader takes  str(cell or '').             *)

Whitespace == {" ", "\n"}

Digits == {"0", "2"}

\* str.lstrip() / str.rstrip() / str.strip()
RECURSIVE LStrip(_)
LStrip(s) ==
    IF s = <<>> \/ Head(s) \notin Whitespace THEN s ELSE LStrip(Tail(s))

RECURSIVE RStrip(_)
RStrip(s) ==
    IF s = <<>> \/ s[Len(s)] \notin Whitespace
    THEN s
    ELSE RStrip(SubSeq(s, 1, Len(s) - 1))

Strip(s) == RStrip(LStrip(s))

\* str.isdigit()
IsDigit(s) == s # <<>> /\ \A n \in DOMAIN s : s[n] \in Digits

\* int(s) of a string of digits
RECURSIVE IntOf(_)
IntOf(s) ==
    IF s = <<>>
    THEN 0
    ELSE 10 * IntOf(SubSeq(s, 1, Len(s) - 1)) + (IF s[Len(s)] = "0" THEN 0 ELSE 2)

\* w in cell, for a word w
HasWord(cell, w) == \E n \in DOMAIN cell : cell[n] = w

\* ' '.join(parts) of a list of strings
RECURSIVE JoinSpace(_)
JoinSpace(parts) ==
    IF parts = <<>>
    THEN <<>>
    ELSE IF Len(parts) = 1
    THEN parts[1]
    ELSE parts[1] \o <<" ">> \o JoinSpace(Tail(parts))

----------------------------------------------------------------------------
(* EliteAccessoriesParser.parse.                                           *)

\* The column a header cell names: the if/elif chain over cell_str.
EliteColumn(cell) ==
    IF HasWord(cell, "qty") THEN "qty"
    ELSE IF HasWord(cell, "bo") THEN "bo"
    ELSE IF HasWord(cell, "item no") THEN "item"
    ELSE IF HasWord(cell, "description") THEN "desc"
    ELSE IF HasWord(cell, "size") THEN "size"
    ELSE IF HasWord(cell, "unit price") THEN "price"
    ELSE "none"

\* qty_idx, item_idx, ... after the loop over header_row: the last cell
\* naming the column, 0 for None (indices are 1-based).
EliteIndex(header_row, col) ==
    LET at == {n \in DOMAIN header_row : EliteColumn(Strip(header_row[n])) = col}
    IN  IF at = {} THEN 0 ELSE CHOOSE n \in at : \A m \in at : m <= n

\* 'qty' in header_str or 'item no' in header_str
EliteIsItemsHeader(header_row) ==
    \E n \in DOMAIN header_row :
        HasWord(header_row[n], "qty") \/ HasWord(header_row[n], "item no")

\* str(row[idx] or '').strip()  when idx is set and inside the row, else ''
EliteCell(row, idx) ==
    IF idx # 0 /\ idx <= Len(row) THEN Strip(row[idx]) ELSE <<>>

\* Whether float(price_cell) raises ValueError.
ElitePriceFails(row, idx) ==
    EliteCell(row, idx) # <<>> /\ ~IsDigit(EliteCell(row, idx))

\* The record of a data row whose quantity cell is a string of digits.
EliteRecord(header_row, row, pg, tb, ln) ==
    LET bo_cell == EliteCell(row, EliteIndex(header_row, "bo"))
        item_no == EliteCell(row, EliteIndex(header_row, "item"))
        description == EliteCell(row, EliteIndex(header_row, "desc"))
        size == EliteCell(row, EliteIndex(header_row, "size"))
        desc_parts == (IF description # <<>> THEN <<description>> ELSE <<>>)
                      \o (IF size # <<>> THEN <<size>> ELSE <<>>)
    IN  [quantity |-> IntOf(EliteCell(row, EliteIndex(header_row, "qty"))),
         backorder |-> IF IsDigit(bo_cell) THEN IntOf(bo_cell) ELSE 0,
         item_number |-> item_no,
         sku |-> item_no,
         product_description |->
             IF desc_parts # <<>> THEN JoinSpace(desc_parts) ELSE item_no,
         pg |-> pg, tb |-> tb, ln |-> ln]

\* if len(pdf.pages) < 3: return items ; for page_num in range(2, len(pdf.pages))
EliteOpen ==
    /\ pc = "open"
    /\ vendor = "elite_accessories"
    /\ IF Len(doc) < 3
       THEN pc' = "done" /\ p' = p
       ELSE pc' = "page" /\ p' = 3
    /\ UNCHANGED <<callVars, text, ownVars, invoice_format, vendor,
                   include_zero_qty, doc, i, in_items, table_idx,
                   pending_item_number, scanned, items>>

\* tables = page.extract_tables(...); if not tables: continue
ElitePage ==
    /\ pc = "page"
    /\ vendor = "elite_accessories"
    /\ IF p > Len(doc)
       THEN pc' = "done" /\ UNCHANGED <<p, table_idx, scanned>>
       ELSE /\ scanned' = scanned \cup {p}
            /\ IF doc[p].tables = <<>>
               THEN p' = p + 1 /\ UNCHANGED <<pc, table_idx>>
               ELSE pc' = "table" /\ table_idx' = 1 /\ p' = p
    /\ UNCHANGED <<callVars, text, ownVars, invoice_format, vendor,
                   include_zero_qty, doc, i, in_items, pending_item_number,
                   items>>

\* One iteration of  for table_idx, table in enumerate(tables)  (or its end),
\* up to the first data row.
EliteTable ==
    /\ pc = "table"
    /\ vendor = "elite_accessories"
    /\ IF table_idx > Len(doc[p].tables)
       THEN pc' = "page" /\ p' = p + 1 /\ UNCHANGED <<table_idx, i>>
       ELSE LET table == doc[p].tables[table_idx]
            IN  /\ p' = p
                /\ IF Len(table) < 2 \/ ~EliteIsItemsHeader(table[1])
                   THEN table_idx' = table_idx + 1 /\ UNCHANGED <<pc, i>>
                   ELSE pc' = "row" /\ i' = 2 /\ table_idx' = table_idx
    /\ UNCHANGED <<callVars, text, ownVars, invoice_format, vendor,
                   include_zero_qty, doc, in_items, pending_item_number,
                   scanned, items>>

\* One iteration of  for row_idx, row in enumerate(table[1:], start=1)
\* (or its end).
EliteRow ==
    /\ pc = "row"
    /\ vendor = "elite_accessories"
    /\ LET table == doc[p].tables[table_idx]
           header_row == table[1]
           qty_idx == EliteIndex(header_row, "qty")
       IN  IF i > Len(table)
           THEN pc' = "table" /\ table_idx' = table_idx + 1 /\ UNCHANGED <<i, items>>
           ELSE LET row == table[i]
                    qty_cell == EliteCell(row, qty_idx)
                IN  /\ i' = i + 1
                    /\ UNCHANGED <<pc, table_idx>>
                    /\ IF row = <<>> \/ qty_idx = 0 \/ qty_idx > Len(row)
                          \/ ~IsDigit(qty_cell)
                       THEN items' = items
                       ELSE IF IntOf(qty_cell) = 0 /\ ~include_zero_qty
                       THEN items' = items
                       ELSE IF ElitePriceFails(row, EliteIndex(header_row, "price"))
                       THEN items' = items
                       ELSE items' = Append(items,
                               EliteRecord(header_row, row, p, table_idx, i))
    /\ UNCHANGED <<callVars, text, ownVars, invoice_format, vendor,
                   include_zero_qty, doc, p, in_items, pending_item_number,
                   scanned>>

\* The header rows of the tables of the model.
EliteHeaders ==
    { << <<"qty">>, <<"item no">>, <<"description">> >>,
      << <<"qty">>, <<"description">>, <<"size">> >>,
      << <<"qty">>, <<"item no">>, <<"unit price">> >>,
      << <<"description">> >> }

\* The cells a data row may carry in a column.
EliteCells(col) ==
    CASE col = "qty" -> {<<"2">>, <<"0">>, <<>>}
      [] col = "item" -> {<<"A">>, <<>>}
      [] col = "desc" -> {<<"a">>, <<>>, <<"a", "\n", "b">>}
      [] col = "size" -> {<<"s">>, <<>>}
      [] col = "price" -> {<<"2">>, <<"a">>}
      [] OTHER -> {<<>>}

\* The data rows under a header row: a cell for each column, or for the
\* first columns only.
EliteRows(header_row) ==
    UNION { {r \in [1..m -> UNION {EliteCells(EliteColumn(header_row[n])) :
                                      n \in DOMAIN header_row}] :
                \A n \in 1..m : r[n] \in EliteCells(EliteColumn(header_row[n]))} :
            m \in DOMAIN header_row }

\* The tables with a header row of H and at most nr data rows.
EliteTables(H, nr) ==
    UNION { {<<h>> \o rs : rs \in SeqsUpTo(EliteRows(h), nr)} : h \in H }

TablePage(ts) == [lines |-> <<>>, tables |-> ts]

\* The first two pages: without tables, or with one items table.
EliteCoverPages ==
    { TablePage(<<>>),
      TablePage(<< << << <<"qty">>, <<"item no">>, <<"description">> >>,
                      << <<"2">>, <<"A">>, <<"a">> >> >> >>) }

\* The pages after the first two: one page with a table of up to nr data
\* rows or with two tables of up to nr - 1, or two pages with a table of up
\* to nr - 1 each.
EliteBodies(H, nr) ==
    { <<TablePage(ts)>> : ts \in SeqsUpTo(EliteTables(H, nr), 1) }
    \cup { <<TablePage(<<t1, t2>>)>> : t1, t2 \in EliteTables(H, nr - 1) }
    \cup { <<TablePage(ts1), TablePage(ts2)>> :
              ts1, ts2 \in SeqsUpTo(EliteTables(H, nr - 1), 1) }

EliteDocs(H, nr) ==
    SeqsUpTo(EliteCoverPages, 2)
    \cup { c \o b : c \in [1..2 -> EliteCoverPages], b \in EliteBodies(H, nr) }

\* The state before EliteAccessoriesParser.parse is entered.
EliteInit(docs) ==
    /\ text = {}
    /\ vendor = "elite_accessories"
    /\ include_zero_qty \in BOOLEAN
    /\ doc \in docs
    /\ pc = "open"
    /\ p = 1
    /\ i = 0
    /\ in_items = FALSE
    /\ table_idx = 0
    /\ pending_item_number = <<>>
    /\ scanned = {}
    /\ items = <<>>
    /\ calls = <<>>
    /\ custom_items = <<>>
    /\ queue = <<>>
    /\ results = <<>>
    /\ last_header = <<>>
    /\ invoice_format = ""
    /\ cleaned = <<>>
    /\ OwnInit

InitElite == EliteInit(EliteDocs(EliteHeaders, MaxRows))

NextElite == EliteOpen \/ ElitePage \/ EliteTable \/ EliteRow

SpecElite == InitElite /\ [][NextElite]_vars

----------------------------------------------------------------------------
(* AvantiParser.parse.  Classes of the stripped line:                      *)
(*   item   matches  #N CODE TEXT PRICE QTY AMOUNT ; tenths is the value   *)
(*          of the quantity group \d+\.\d+ in tenths                       *)
(*   other  any other line                                                 *)

AvantiLines ==
    {[k |-> "other"]} \cup {[k |-> "item", tenths |-> n] : n \in {0, 20, 25}}

\* "quantity": int(qty) if qty == int(qty) else qty
AvantiQuantity(tenths) ==
    IF tenths % 10 = 0
    THEN [type |-> "int", tenths |-> tenths]
    ELSE [type |-> "float", tenths |-> tenths]

\* for page in pdf.pages: text = page.extract_text(); if not text: continue
AvantiPage ==
    /\ pc = "page"
    /\ vendor = "avanti"
    /\ IF p > Len(doc)
       THEN pc' = "done" /\ UNCHANGED <<p, i, scanned>>
       ELSE /\ scanned' = scanned \cup {p}
            /\ IF doc[p].lines = <<>>
               THEN p' = p + 1 /\ UNCHANGED <<pc, i>>
               ELSE pc' = "line" /\ i' = 1 /\ p' = p
    /\ UNCHANGED <<callVars, text, ownVars, invoice_format, vendor,
                   include_zero_qty, doc, in_items, table_idx,
                   pending_item_number, items>>

\* One iteration of  for line in lines  (or its end).
AvantiLine ==
    /\ pc = "line"
    /\ vendor = "avanti"
    /\ IF i > Len(doc[p].lines)
       THEN pc' = "page" /\ p' = p + 1 /\ UNCHANGED <<i, items>>
       ELSE LET line == doc[p].lines[i]
            IN  /\ i' = i + 1
                /\ UNCHANGED <<pc, p>>
                /\ IF line.k = "item" /\ (line.tenths # 0 \/ include_zero_qty)
                   THEN items' = Append(items,
                            [quantity |-> AvantiQuantity(line.tenths),
                             item_number |-> <<Piece(p, i, "code")>>,
                             sku |-> <<Piece(p, i, "code")>>,
                             product_description |-> <<Piece(p, i, "desc")>>,
                             pg |-> p, ln |-> i])
                   ELSE items' = items
    /\ UNCHANGED <<callVars, text, ownVars, invoice_format, vendor,
                   include_zero_qty, doc, in_items, table_idx,
                   pending_item_number, scanned>>

InitAvanti == ScanInit("avanti", TextDocs(AvantiLines, MaxDocLen))

NextAvanti == AvantiPage \/ AvantiLine

SpecAvanti == InitAvanti /\ [][NextAvanti]_vars

----------------------------------------------------------------------------
(* The scanners side by side: parse(pdf_path, include_zero_qty) of one of  *)
(* the scanners above is run on one of its documents.                      *)

InitScanners ==
    \/ ScanInit("luxury_brands", TextDocs(LuxuryLines, MaxScanLen))
    \/ ScanInit("montblanc", TextDocs(MontblancLines, MaxScanLen))
    \/ ScanInit("avanti", TextDocs(AvantiLines, MaxScanLen))
    \/ ScanInit("chartpak", TextDocs(ChartpakLines, MaxScanLen))
    \/ EliteInit(EliteDocs({<< <<"qty">>, <<"item no">> >>}, MaxRows))

NextScanners ==
    \/ NextLuxury
    \/ NextMontblanc
    \/ NextAvanti
    \/ NextChartpak
    \/ NextElite

SpecScanners == InitScanners /\ [][NextScanners]_vars

----------------------------------------------------------------------------
(* Dispatch: parse_with_custom_parser and InvoiceParser.extract_line_items. *)
(* What a scanner or the generic table parser returns for the document is   *)
(* drawn when it is invoked; calls keeps who was invoked and what it        *)
(* returned.                                                                *)

\* The keys of the registry.
CUSTOM_PARSERS ==
    { "itoya", "luxury_brands", "rediform", "toms_studio", "coles", "lamy",
      "pilot", "montblanc", "lighthouse", "retro51", "twsbi", "writeusa",
      "kenro", "avanti", "plotter", "tsl", "exaclair", "uniball", "ameico",
      "chartpak", "jpt", "wearingeul", "elite_accessories" }

\* What parser_class.parse(pdf_path, include_zero_qty) may return.
ScannerResults(v) ==
    { <<>>, <<[from |-> v, n |-> 1]>>, <<[from |-> v, n |-> 1], [from |-> v, n |-> 2]>> }

\* What self._extract_table_based() may return.
GenericResults == { <<>>, <<[from |-> "generic", n |-> 1]>> }

\* The test that is replaced: no result of the vendor path is returned.
ReturnsCustom_never(its) == FALSE

\* if custom_items: return custom_items
ReturnsCustom(its) == its # <<>>

\* parse_with_custom_parser(str(self.pdf_path), INCLUDE_ZERO_QUANTITY)
ParseWithCustomParser ==
    /\ pc = "start"
    /\ pc' = "custom"
    /\ IF doc = <<>>
       THEN custom_items' = <<>> /\ UNCHANGED <<vendor, calls>>
       ELSE /\ vendor' = detect_vendor(text)
            /\ IF vendor' # "" /\ vendor' \in DOMAIN registry
               THEN \E out \in ScannerResults(vendor') :
                       /\ calls' = Append(calls, [parser |-> vendor', returned |-> out])
                       /\ custom_items' = out
               ELSE custom_items' = <<>> /\ calls' = calls
    /\ UNCHANGED <<text, ownVars, invoice_format, scanVars, queue, results,
                   last_header>>

\* extract_line_items, from the return of parse_with_custom_parser on.
ExtractLineItems ==
    /\ pc = "custom"
    /\ pc' = "done"
    /\ IF ReturnsCustom(custom_items)
       THEN items' = custom_items /\ calls' = calls
       ELSE \E out \in GenericResults :
               /\ calls' = Append(calls, [parser |-> "generic", returned |-> out])
               /\ items' = out
    /\ UNCHANGED <<text, ownVars, invoice_format, vendor, include_zero_qty,
                   doc, p, i, in_items, table_idx, pending_item_number,
                   scanned, custom_items, queue, results, last_header>>

\* A document without pages, or with a first page whose text holds up to
\* MaxPhrases of the phrases; INCLUDE_ZERO_QUANTITY = True.
InitDispatch ==
    /\ \/ doc = <<>> /\ text = {}
       \/ doc = <<[lines |-> <<>>, tables |-> <<>>]>> /\ text \in Texts
    /\ vendor = ""
    /\ include_zero_qty = TRUE
    /\ pc = "start"
    /\ p = 1
    /\ i = 0
    /\ in_items = FALSE
    /\ table_idx = 0
    /\ pending_item_number = <<>>
    /\ scanned = {}
    /\ items = <<>>
    /\ calls = <<>>
    /\ custom_items = <<>>
    /\ queue = <<>>
    /\ results = <<>>
    /\ last_header = <<>>
    /\ invoice_format = ""
    /\ cleaned = <<>>
    /\ OwnInit

NextDispatch == ParseWithCustomParser \/ ExtractLineItems

SpecDispatch == InitDispatch /\ [][NextDispatch]_vars

----------------------------------------------------------------------------
(* Several parse calls in one process: LuxuryBrandsParser.parse, or        *)
(* InvoiceParser._extract_table_based, is run on a document, then on       *)
(* another one, then on the first one again.                               *)

\* The carry-over a new call would start with if the slot outlived the call.
LuxuryEntryPending_kept(pending) == pending

\* pending_item_number = None  at the entry of parse
LuxuryEntryPending(pending) == <<>>

\* parse returns items; parse is entered for the next document:
\* items = [] ; pending_item_number = None
LuxuryEnter ==
    /\ pc = "done"
    /\ vendor = "luxury_brands"
    /\ queue # <<>>
    /\ results' = Append(results, [doc |-> doc, items |-> items])
    /\ doc' = Head(queue)
    /\ queue' = Tail(queue)
    /\ items' = <<>>
    /\ pending_item_number' = LuxuryEntryPending(pending_item_number)
    /\ pc' = "page"
    /\ p' = 1
    /\ i' = 0
    /\ scanned' = {}
    /\ UNCHANGED <<text, ownVars, invoice_format, vendor, include_zero_qty,
                   in_items, table_idx, calls, custom_items, last_header>>

----------------------------------------------------------------------------
(* InvoiceParser._extract_table_based.  A table is a sequence of rows, a   *)
(* row a sequence of cells.                                                *)

\* The words of the cells of the generic parser's tables.  A cell is a
\* sequence of words and whitespace characters with no two words side by
\* side; a word is a string of characters that are not whitespace.
INCLUDE_ZERO_QUANTITY == TRUE

\* The character n of the word w.
Char(w, n) == SubSeq(w, n, n)

DecimalDigits == {"0", "1", "2", "3", "4", "5", "6", "7", "8", "9"}

\* The codes of cid_map and their characters.
CidCodes == {34, 35, 43, 44, 45, 47, 58, 192} \cup 48..57 \cup 65..90 \cup 97..122

CidChar(n) ==
    CASE n = 34 -> "\""
      [] n = 35 -> "#"
      [] n = 43 -> "+"
      [] n = 44 -> ","
      [] n = 45 -> "-"
      [] n = 47 -> "/"
      [] n = 58 -> ":"
      [] n \in 48..57 -> Char("0123456789", n - 47)
      [] n \in 65..90 -> Char("ABCDEFGHIJKLMNOPQRSTUVWXYZ", n - 64)
      [] n \in 97..122 -> Char("abcdefghijklmnopqrstuvwxyz", n - 96)
      [] n = 192 -> "Ã€"

\* cid_map: the keys are the codes as written in decimal.
cid_map ==
    [cid_num \in {ToString(n) : n \in CidCodes} |->
        CidChar(CHOOSE n \in CidCodes : ToString(n) = cid_num)]

\* The last character of the match of  \(cid:(\d+)\)  that starts at
\* character n of w; 0 when none starts there.
MarkerEnd(w, n) ==
    IF n + 6 > Len(w) \/ SubSeq(w, n, n + 4) # "(cid:" THEN 0
    ELSE LET ends == {m \in (n + 6)..Len(w) :
                         /\ Char(w, m) = ")"
                         /\ \A k \in (n + 5)..(m - 1) : Char(w, k) \in DecimalDigits}
         IN  IF ends = {} THEN 0 ELSE CHOOSE m \in ends : TRUE

\* The first character of the first match in w; 0 when there is none.
FirstMarker(w) ==
    LET at == {n \in 1..Len(w) : MarkerEnd(w, n) # 0}
    IN  IF at = {} THEN 0 ELSE CHOOSE n \in at : \A m \in at : n <= m

\* Mutant of decode_cid_references: the text is returned as it is.
decode_cid_references_asis(w) == w

\* decode_cid_references(text) == re.sub(r"\(cid:(\d+)\)", replace_cid, text)
\* for a word: from left to right every match is replaced by the
\* character of its code in cid_map, or kept when cid_map has no such key.
RECURSIVE decode_cid_references(_)

\* replace_cid(match): cid_map.get(cid_num, match.group(0))
replace_cid(cid_num, match) ==
    IF cid_num \in DOMAIN cid_map THEN cid_map[cid_num] ELSE match

\* The text w decoded, its first match being the characters n..m.
DecodedFrom(w, n, m) ==
    SubSeq(w, 1, n - 1)
    \o replace_cid(SubSeq(w, n + 5, m - 1), SubSeq(w, n, m))
    \o decode_cid_references(SubSeq(w, m + 1, Len(w)))

DecodedAt(w, n) == IF n = 0 THEN w ELSE DecodedFrom(w, n, MarkerEnd(w, n))

decode_cid_references(w) == DecodedAt(w, FirstMarker(w))

\* The same for the text of a cell: no match holds whitespace, and no
\* character of cid_map is one.
Decoded(cell) == [n \in DOMAIN cell |-> decode_cid_references(cell[n])]

\* str.lower() of a word; the words not listed hold no upper-case letter
\* that a test of the parser can see.
Lower(w) ==
    CASE w = "Qty" -> "qty"
      [] w = "Item#" -> "item#"
      [] w = "SKU" -> "sku"
      [] w = "Description" -> "description"
      [] w = "Price" -> "price"
      [] w = "Amount" -> "amount"
      [] w = "Total" -> "total"
      [] w = "Notes" -> "notes"
      [] w = "None" -> "none"
      [] w = "Infinity" -> "infinity"
      [] w = "NaN" -> "nan"
      [] OTHER -> w

\* w without a sign in front.
Unsigned(w) == IF w # "" /\ Char(w, 1) \in {"+", "-"} THEN SubSeq(w, 2, Len(w)) ELSE w

\* w is written with digits and at most one point.
IsNumeral(w) ==
    /\ \A n \in 1..Len(w) : Char(w, n) \in DecimalDigits \cup {"."}
    /\ \E n \in 1..Len(w) : Char(w, n) # "."
    /\ Cardinality({n \in 1..Len(w) : Char(w, n) = "."}) <= 1

\* float(w) is infinite, is not a number.
IsInfinite(w) == Lower(Unsigned(w)) \in {"inf", "infinity"}

IsNaN(w) == Lower(Unsigned(w)) = "nan"

\* float(w) succeeds; the words of the model spell no exponent and no
\* underscore.
IsUnsignedFloat(u) == IsNumeral(u) \/ Lower(u) \in {"inf", "infinity", "nan"}

IsFloat(w) == IsUnsignedFloat(Unsigned(w))

\* int(w) of a word of digits
RECURSIVE NatOf(_)
NatOf(w) ==
    IF w = "" THEN 0
    ELSE 10 * NatOf(SubSeq(w, 1, Len(w) - 1))
         + (CHOOSE d \in 0..9 : ToString(d) = Char(w, Len(w)))

\* int(float(w)) of a numeral: its digits before the point, with its sign.
Whole(u, point) ==
    IF point = {} THEN u ELSE SubSeq(u, 1, (CHOOSE n \in point : TRUE) - 1)

WholeOf(u) == NatOf(Whole(u, {n \in 1..Len(u) : Char(u, n) = "."}))

IntFloat(w) == IF Char(w, 1) = "-" THEN 0 - WholeOf(Unsigned(w)) ELSE WholeOf(Unsigned(w))

\* w.replace("$", "").replace(",", "")
RECURSIVE Unmarked(_)
Unmarked(w) ==
    IF w = "" THEN ""
    ELSE (IF Char(w, 1) \in {"$", ","} THEN "" ELSE Char(w, 1))
         \o Unmarked(SubSeq(w, 2, Len(w)))

HasSlash(w) == \E n \in 1..Len(w) : Char(w, n) = "/"

\* The part of a word before its first "/"; "" for a word that starts with
\* "/" and for a word without "/".
BeforeSlash(w) ==
    IF ~HasSlash(w) THEN ""
    ELSE SubSeq(w, 1, (CHOOSE n \in 1..Len(w) :
                          Char(w, n) = "/" /\ \A m \in 1..(n - 1) : Char(w, m) # "/") - 1)

\* cell and str(cell).strip()
NonEmpty(cell) == Strip(cell) # <<>>

\* " ".join(value.split())
Normalised(cell) ==
    LET words == SelectSeq(cell, LAMBDA t : t \notin Whitespace)
    IN  JoinSpace([n \in DOMAIN words |-> <<words[n]>>])

\* indicators of _is_line_items_table
indicators == {"qty", "quantity", "item", "sku", "product", "price", "amount", "total"}

\* indicator in h, for the lower-cased text h of a cell
IndicatorIn(indicator, cell) ==
    \E n \in DOMAIN cell :
        \/ Lower(cell[n]) = indicator
        \/ indicator = "item" /\ Lower(cell[n]) = "item#"

\* _is_line_items_table(header_row)
is_line_items_table(header_row) ==
    /\ header_row # <<>>
    /\ Cardinality({ind \in indicators :
                       \E n \in DOMAIN header_row : IndicatorIn(ind, header_row[n])}) >= 3

\* str(header).lower().strip() of a header cell of one word; the header
\* cells of the model with more words are no key of the parser.
HeaderKey(cell) ==
    IF Len(Strip(cell)) = 1 THEN Lower(Strip(cell)[1]) ELSE "other"

\* row_dict: header -> value for the columns that have a header and a cell;
\* a later column with the same header replaces an earlier one.
RowDict(row, headers) ==
    LET cols == {n \in DOMAIN headers : n <= Len(row) /\ headers[n] # <<>>}
    IN  [k \in {HeaderKey(headers[n]) : n \in cols} |->
            row[CHOOSE n \in cols :
                   /\ HeaderKey(headers[n]) = k
                   /\ \A m \in cols : HeaderKey(headers[m]) = k => m <= n]]

\* The first of the keys, in their order, that is in row_dict with a cell
\* that Good accepts; 0 when there is none.
FirstKey(row_dict, keys, Good(_)) ==
    LET at == {n \in DOMAIN keys :
                  /\ keys[n] \in DOMAIN row_dict
                  /\ row_dict[keys[n]] # <<>>
                  /\ Good(row_dict[keys[n]])}
    IN  IF at = {} THEN 0 ELSE CHOOSE n \in at : \A m \in at : n <= m

\* float(str(cell).strip()) succeeds on a non-empty stripped text and is
\* a number.
IsNumberText(value) == Len(value) = 1 /\ IsFloat(value[1]) /\ ~IsNaN(value[1])

IsNumber(cell) == IsNumberText(Strip(cell))

\* int(float(str(cell).strip())) raises OverflowError.
IsOverflowText(value) == IsNumberText(value) /\ IsInfinite(value[1])

IsOverflow(cell) == IsOverflowText(Strip(cell))

\* int(float(str(cell).strip())) succeeds.
IsQuantityText(value) == Len(value) = 1 /\ IsFloat(value[1]) /\ ~IsNaN(value[1])
                         /\ ~IsInfinite(value[1])

IsQuantity(cell) == IsQuantityText(Strip(cell))

QuantityKeys == <<"qty", "quantity", "qnty", "shipped", "ordered">>

\* _extract_quantity(row_dict) raises: the first of its keys with a
\* number, key n, is infinite.
QuantityRaisesAt(row_dict, n) == n # 0 /\ IsOverflow(row_dict[QuantityKeys[n]])

QuantityRaises(row_dict) ==
    QuantityRaisesAt(row_dict, FirstKey(row_dict, QuantityKeys, IsNumber))

\* _extract_quantity(row_dict): <<>> is None.
extract_quantity(row_dict) ==
    LET keys == <<"qty", "quantity", "qnty", "shipped", "ordered">>
        n == FirstKey(row_dict, keys, IsQuantity)
    IN  IF n = 0 THEN <<>> ELSE <<IntFloat(Strip(row_dict[keys[n]])[1])>>

\* value and value.lower() not in ["none", "null", ""]
IsFieldText(value) ==
    /\ value # <<>>
    /\ ~(Len(value) = 1 /\ Lower(value[1]) \in {"none", "null"})

IsField(cell) == IsFieldText(Normalised(Decoded(cell)))

\* _extract_field(row_dict, possible_keys): <<>> is None.
extract_field(row_dict, possible_keys) ==
    LET n == FirstKey(row_dict, possible_keys, IsField)
    IN  IF n = 0 THEN <<>> ELSE Normalised(Decoded(row_dict[possible_keys[n]]))

\* decode_cid_references(str(cell)).strip().replace("$", "").replace(",", "")
\* without the whitespace around it
PriceText(cell) ==
    Strip(SelectSeq([n \in DOMAIN cell |-> Unmarked(decode_cid_references(cell[n]))],
                    LAMBDA w : w # ""))

\* float of it succeeds.
IsPriceText(value) == Len(value) = 1 /\ IsFloat(value[1])

IsPrice(cell) == IsPriceText(PriceText(cell))

\* The float of a price cell, written as its text without "$" and ","; <<>>
\* is None.
PriceOfText(value) == IF IsPriceText(value) THEN value ELSE <<>>

PriceOf(cell) == PriceOfText(PriceText(cell))

\* _extract_price(row_dict, possible_keys)
extract_price(row_dict, possible_keys) ==
    LET n == FirstKey(row_dict, possible_keys, IsPrice)
    IN  IF n = 0 THEN <<>> ELSE PriceOf(row_dict[possible_keys[n]])

\* Mutant of extract_first_item_number: the first part is not stripped.
extract_first_item_number_unstripped(item_num) ==
    LET at == {n \in DOMAIN item_num : HasSlash(item_num[n])}
    IN  IF at = {} THEN item_num
        ELSE LET n == CHOOSE n \in at : \A m \in at : n <= m
             IN  SubSeq(item_num, 1, n - 1) \o
                 (IF BeforeSlash(item_num[n]) = "" THEN <<>>
                  ELSE <<BeforeSlash(item_num[n])>>)

\* Mutant of extract_first_item_number: the item number is kept whole.
extract_first_item_number_whole(item_num) == item_num

\* _extract_first_item_number(item_num): item_num.split("/")[0].strip()
extract_first_item_number(item_num) ==
    LET at == {n \in DOMAIN item_num : HasSlash(item_num[n])}
    IN  IF at = {} THEN item_num
        ELSE LET n == CHOOSE n \in at : \A m \in at : n <= m
             IN  Strip(SubSeq(item_num, 1, n - 1) \o
                       (IF BeforeSlash(item_num[n]) = "" THEN <<>>
                        ELSE <<BeforeSlash(item_num[n])>>))

\* The record of a row; hdr is the header row it was read under.
GenericRecord(qty, item_num, sku, product, unit_price, total, hdr, pg, tb, n) ==
    [quantity |-> qty, item_number |-> item_num, sku |-> sku,
     product_description |-> product, unit_price |-> unit_price,
     total_amount |-> total, header |-> hdr, pg |-> pg, tb |-> tb, ln |-> n]

\* _parse_line_item_row(row, headers): <<>> is None.
parse_line_item_row(row, headers, hdr, pg, tb, n) ==
    LET row_dict == RowDict(row, headers)
        qty == extract_quantity(row_dict)
        item == extract_field(row_dict,
                    <<"item#", "item #", "item", "item_number", "itemnumber",
                      "item no", "item no.">>)
        sku == extract_field(row_dict, <<"sku", "item_code", "item code">>)
        product == extract_field(row_dict,
                       <<"product", "description", "item_description",
                         "item description">>)
        unit_price == extract_price(row_dict,
                          <<"price", "unit_price", "unit price", "price each">>)
        total == extract_price(row_dict,
                     <<"amount", "total", "total_amount", "line_total">>)
        first == extract_first_item_number(item)
        item_num == IF first = <<>> /\ sku # <<>> THEN sku ELSE first
        sku_num == IF first = <<>> /\ sku # <<>> THEN sku
                   ELSE IF sku = <<>> /\ first # <<>> THEN first ELSE sku
    IN  IF row = <<>> \/ Len(row) < 4 THEN <<>>
        ELSE IF qty = <<>> THEN <<>>
        ELSE IF ~INCLUDE_ZERO_QUANTITY /\ qty[1] = 0 THEN <<>>
        ELSE IF item_num = <<>> \/ sku_num = <<>> \/ product = <<>> THEN <<>>
        ELSE <<GenericRecord(qty[1], item_num, sku_num, product, unit_price, total,
                             hdr, pg, tb, n)>>

\* Mutant of TrimmedRow: only the leading empty cells are cut.
TrimmedRow_leading(row) ==
    LET at == {n \in DOMAIN row : NonEmpty(row[n])}
    IN  IF at = {} THEN row
        ELSE SubSeq(row, CHOOSE n \in at : \A m \in at : n <= m, Len(row))

\* trimmed_row = row[start_idx:end_idx]: the row without its leading and
\* trailing empty cells, the whole row when every cell is empty.
TrimmedRow(row) ==
    LET at == {n \in DOMAIN row : NonEmpty(row[n])}
    IN  IF at = {} THEN row
        ELSE SubSeq(row, CHOOSE n \in at : \A m \in at : n <= m,
                         CHOOSE n \in at : \A m \in at : m <= n)

\* _parse_continuation_row(row, header): <<>> is None.
parse_continuation_row(row, header, hdr, pg, tb, n) ==
    LET trimmed_row == TrimmedRow(row)
        item_num == extract_first_item_number(Normalised(Decoded(trimmed_row[2])))
        sku == Normalised(Decoded(trimmed_row[3]))
        description == Normalised(Decoded(trimmed_row[4]))
        unit_price == PriceOf(trimmed_row[5])
        total_amount == IF Len(trimmed_row) > 5 THEN PriceOf(trimmed_row[6]) ELSE <<>>
    IN  IF row = <<>> THEN <<>>
        ELSE IF Len(row) = Len(header)
        THEN parse_line_item_row(row, header, hdr, pg, tb, n)
        ELSE IF Len(trimmed_row) < 5 THEN <<>>
        ELSE IF ~IsQuantity(trimmed_row[1]) THEN <<>>
        ELSE IF ~INCLUDE_ZERO_QUANTITY /\ IntFloat(Strip(trimmed_row[1])[1]) = 0
        THEN <<>>
        ELSE IF item_num = <<>> \/ sku = <<>> \/ description = <<>> THEN <<>>
        ELSE <<GenericRecord(IntFloat(Strip(trimmed_row[1])[1]), item_num, sku,
                             description, unit_price, total_amount, hdr, pg, tb, n)>>

\* The rows of the tables read again and of the tables in sequence: a
\* header, a row of empty cells, a row that gives a record under the header
\* and a row without quantity.
GenericHeader ==
    << <<"Qty">>, <<"Item#">>, <<"SKU">>, <<"Description">>, <<"Price">>, <<"Amount">> >>

GenericRows ==
    { GenericHeader,
      << <<>>, <<>>, <<>>, <<>>, <<>>, <<>> >>,
      << <<"2">>, <<"ABC1">>, <<"ABC1">>, <<"Widget">>, <<"2.50">>, <<"5.00">> >>,
      << <<"x">>, <<"ABC1">>, <<"ABC1">>, <<"Widget">>, <<"2.50">>, <<"5.00">> >> }

\* The marks between the tables of a page and between the pages, in a flat
\* sequence of rows.
TableBreak == << <<"tablebreak">> >>

TablePageBreak == << <<"pagebreak">> >>

\* The tables of a page given as a flat sequence of rows and table breaks.
RECURSIVE SplitTables(_)
SplitTables(s) ==
    IF s = <<>> THEN << <<>> >>
    ELSE LET rest == SplitTables(Tail(s))
         IN  IF Head(s) = TableBreak
             THEN << <<>> >> \o rest
             ELSE << <<Head(s)>> \o rest[1] >> \o Tail(rest)

\* The pages of a flat sequence of rows, table breaks and page breaks.
RECURSIVE SplitTablePages(_)
SplitTablePages(s) ==
    IF s = <<>> THEN << <<>> >>
    ELSE LET rest == SplitTablePages(Tail(s))
         IN  IF Head(s) = TablePageBreak
             THEN << <<>> >> \o rest
             ELSE << <<Head(s)>> \o rest[1] >> \o Tail(rest)

\* The documents whose table rows are drawn from the rows R; a page
\* without rows is a page without tables.
TableDocs(R, len) ==
    { [n \in DOMAIN SplitTablePages(s) |->
          TablePage(IF SplitTablePages(s)[n] = <<>> THEN <<>>
                    ELSE SplitTables(SplitTablePages(s)[n]))] :
        s \in SeqsUpTo(R \cup {TableBreak, TablePageBreak}, len) }

\* Mutant of GenericHeaderIndex: the header is looked for in every row.
GenericHeaderIndex_every_row(table) ==
    LET at == {n \in DOMAIN table : is_line_items_table(table[n])}
    IN  IF at = {} THEN 0 ELSE CHOOSE n \in at : \A m \in at : n <= m

\* for idx, row in enumerate(table[:5]): the first header row, 0 for None.
GenericHeaderIndex(table) ==
    LET at == {n \in DOMAIN table : n <= 5 /\ is_line_items_table(table[n])}
    IN  IF at = {} THEN 0 ELSE CHOOSE n \in at : \A m \in at : n <= m

\* The header row last_header refers to.
GenericHeaderRow(hdr) == doc[hdr[1].pg].tables[hdr[1].tb][hdr[1].ln]

\* row and any(cell for cell in row if cell)
GenericAnyCell(row) == \E n \in DOMAIN row : row[n] # <<>>

\* The records of the rows j.. of table tb of page pg, parsed under the
\* header hdr by _parse_line_item_row (f = "item") or, the rows with a
\* cell, by _parse_continuation_row (f = "cont").
RECURSIVE GenericRecords(_, _, _, _, _, _)
GenericRecords(table, pg, tb, j, hdr, f) ==
    IF j > Len(table)
    THEN <<>>
    ELSE (IF f = "item"
          THEN parse_line_item_row(table[j], GenericHeaderRow(hdr), hdr, pg, tb, j)
          ELSE IF GenericAnyCell(table[j])
          THEN parse_continuation_row(table[j], GenericHeaderRow(hdr), hdr, pg, tb, j)
          ELSE <<>>)
         \o GenericRecords(table, pg, tb, j + 1, hdr, f)

\* _parse_line_item_row(row, headers) raises the OverflowError of
\* _extract_quantity, which none of its handlers catches.
ItemRowRaises(row, headers) ==
    Len(row) >= 4 /\ QuantityRaises(RowDict(row, headers))

\* _parse_continuation_row(row, header) raises it.
ContinuationRowRaises(row, header) ==
    IF Len(row) = Len(header) THEN ItemRowRaises(row, header)
    ELSE Len(TrimmedRow(row)) >= 5 /\ IsOverflow(TrimmedRow(row)[1])

\* The first of the rows j.. of the table that raises; 0 when none does.
GenericRaising(table, j, hdr, f) ==
    LET at == {n \in j..Len(table) :
                  IF f = "item" THEN ItemRowRaises(table[n], GenericHeaderRow(hdr))
                  ELSE /\ GenericAnyCell(table[n])
                       /\ ContinuationRowRaises(table[n], GenericHeaderRow(hdr))}
    IN  IF at = {} THEN 0 ELSE CHOOSE n \in at : \A m \in at : n <= m

\* The rows of the table that are read: the ones before the row that
\* raises.
GenericRead(table, j, hdr, f) ==
    IF GenericRaising(table, j, hdr, f) = 0 THEN table
    ELSE SubSeq(table, 1, GenericRaising(table, j, hdr, f) - 1)

\* Mutant of GenericRemembered: the first header of the document is kept.
GenericRemembered_first(last, here) == IF last = <<>> THEN here ELSE last

\* last_header = header_row
GenericRemembered(last, here) == here

\* for _, page in enumerate(pdf.pages, 1): tables = page.extract_tables()
GenericPage ==
    /\ pc = "page"
    /\ vendor = ""
    /\ IF p > Len(doc)
       THEN pc' = "done" /\ UNCHANGED <<p, table_idx, scanned>>
       ELSE /\ scanned' = scanned \cup {p}
            /\ IF doc[p].tables = <<>>
               THEN p' = p + 1 /\ UNCHANGED <<pc, table_idx>>
               ELSE pc' = "table" /\ table_idx' = 1 /\ p' = p
    /\ UNCHANGED <<callVars, text, ownVars, invoice_format, vendor,
                   include_zero_qty, doc, i, in_items, pending_item_number,
                   items>>

\* One iteration of  for table in tables  (or its end).
GenericTable ==
    /\ pc = "table"
    /\ vendor = ""
    /\ IF table_idx > Len(doc[p].tables)
       THEN pc' = "page" /\ p' = p + 1 /\ UNCHANGED <<table_idx, items, last_header>>
       ELSE LET table == doc[p].tables[table_idx]
                h == GenericHeaderIndex(table)
                here == <<[pg |-> p, tb |-> table_idx, ln |-> h]>>
                raising == IF table # <<>> /\ h # 0
                           THEN GenericRaising(table, h + 1, here, "item")
                           ELSE IF table # <<>> /\ last_header # <<>>
                           THEN GenericRaising(table, 1, last_header, "cont")
                           ELSE 0
            IN  /\ IF raising = 0
                   THEN table_idx' = table_idx + 1 /\ pc' = pc
                   ELSE table_idx' = table_idx /\ pc' = "raised"
                /\ p' = p
                /\ IF table # <<>> /\ h # 0
                   THEN /\ last_header' = GenericRemembered(last_header, here)
                        /\ items' = items \o
                              GenericRecords(GenericRead(table, h + 1, here, "item"),
                                             p, table_idx, h + 1, here, "item")
                   ELSE /\ last_header' = last_header
                        /\ items' =
                             IF table # <<>> /\ last_header # <<>>
                             THEN items \o
                                  GenericRecords(
                                      GenericRead(table, 1, last_header, "cont"),
                                      p, table_idx, 1, last_header, "cont")
                             ELSE items
    /\ UNCHANGED <<calls, custom_items, queue, results, text, ownVars,
                   invoice_format, vendor, include_zero_qty, doc, i, in_items,
                   pending_item_number, scanned>>

\* _extract_table_based returns line_items and is entered for the next
\* document:  line_items = [] ; last_header = None
GenericEnter ==
    /\ pc = "done"
    /\ vendor = ""
    /\ queue # <<>>
    /\ results' = Append(results, [doc |-> doc, items |-> items])
    /\ doc' = Head(queue)
    /\ queue' = Tail(queue)
    /\ items' = <<>>
    /\ last_header' = <<>>
    /\ pc' = "page"
    /\ p' = 1
    /\ scanned' = {}
    /\ UNCHANGED <<text, ownVars, invoice_format, vendor, include_zero_qty, i,
                   in_items, table_idx, calls, custom_items,
                   pending_item_number>>

\* The lines of the documents parsed again.
LuxuryAgainLines ==
    {l \in LuxuryLines :
        \/ l.k \in {"ord", "plain"}
        \/ l.k = "item" /\ l.ok /\ l.d
        \/ l.k = "tail" /\ l.q # 0 /\ ~l.tot}

\* The rows of the documents parsed again.
GenericAgainRows == GenericRows

\* The queue holds another document and the first document again.
InitAgain ==
    \/ ScanInitQueue("luxury_brands", TextDocs(LuxuryAgainLines, MaxAgainLen),
                     {<<other, doc>> :
                         other \in TextDocs(LuxuryAgainLines, MaxAgainLen - 2)})
    \/ ScanInitQueue("", TableDocs(GenericAgainRows, MaxAgainLen),
                     {<<other, doc>> :
                         other \in TableDocs(GenericAgainRows, MaxAgainLen - 2)})

NextAgain ==
    \/ LuxuryPage
    \/ LuxuryLine
    \/ LuxuryEnter
    \/ GenericPage
    \/ GenericTable
    \/ GenericEnter

SpecAgain == InitAgain /\ [][NextAgain]_vars

-----------------------------------------------------------------------------
(* Tom's Studio: TomsStudioParser.parse.  A line is one of                 *)
(*   hdr          "TITLE SKU QTY TAX UNIT PRICE TOTAL"                      *)
(*   end          "SUBTOTAL £ 178.38"                                       *)
(*   sku          "PRO-INK-FOU-" (hy) or "JEWEL"                            *)
(*   text         "Fine Fountain Pen Nib" (short: fewer than 30 characters) *)
(*   textsku      "Lumos - Tips (pack of 3) PRO-BRU-FIB-TIP-"               *)
(*   data         "6 0% £ 1.16 £ 6.96"                                      *)
(*   skudata      "PRO-NIB-FOU-FIN 3 0% £ 5.90 £ 17.70"                     *)
(*   descdata     "Japanese Brush Tip 6 0% £ 10.20 £ 61.20"                 *)
(*   descskudata  "Mini Ink Collection - Jewel BOX-MINI-COL- 18 0% £ 9.91 £ *)
(*                178.38"                                                   *)
(* A line with data carries its quantity q and ok, false when its unit      *)
(* price is written with commas only ("£ ,"), which the patterns accept and *)
(* float() rejects.                                                         *)

MaxTomsLen == 3
MaxTomsBody == 5

TomsData == {[q |-> 2, ok |-> TRUE], [q |-> 0, ok |-> TRUE], [q |-> 2, ok |-> FALSE]}

TomsLines ==
    {[k |-> "hdr"], [k |-> "end"]}
    \cup {[k |-> "sku", hy |-> h] : h \in BOOLEAN}
    \cup {[k |-> "text", short |-> s] : s \in BOOLEAN}
    \cup {[k |-> "textsku", hy |-> h] : h \in BOOLEAN}
    \cup {[k |-> "data", q |-> 2, ok |-> b] : b \in BOOLEAN}
    \cup {[k |-> "skudata", hy |-> TRUE, q |-> d.q, ok |-> d.ok] : d \in TomsData}
    \cup {[k |-> "descdata", q |-> 2, ok |-> TRUE]}
    \cup {[k |-> "descskudata", hy |-> TRUE, q |-> d.q, ok |-> d.ok] : d \in TomsData}
    \cup {[k |-> "skudata", hy |-> FALSE, q |-> 2, ok |-> TRUE],
          [k |-> "descskudata", hy |-> FALSE, q |-> 2, ok |-> TRUE]}

\* The lines of which the longer item windows are made.
TomsCore ==
    {[k |-> "sku", hy |-> TRUE], [k |-> "text", short |-> TRUE],
     [k |-> "textsku", hy |-> TRUE],
     [k |-> "data", q |-> 2, ok |-> TRUE],
     [k |-> "skudata", hy |-> TRUE, q |-> 2, ok |-> TRUE],
     [k |-> "descdata", q |-> 2, ok |-> TRUE]}

\* "TITLE" in line and "SKU" in line and "QTY" in line
TomsIsHeader(l) == l.k = "hdr"

\* "SUBTOTAL" in line or "SUB TOTAL" in line or line.strip().startswith("TOTAL")
TomsIsEnd(l) == l.k = "end"

\* re.match(r"^[A-Z0-9\-]+$", s) and len(s) < 30
TomsSkuPart(l) == l.k = "sku"

\* re.search(r"\d+\s+\d+%", s)
TomsHasData(l) == l.k \in {"data", "skudata", "descdata", "descskudata"}

\* re.match(r"^\d+\s+\d+%", s)
TomsStartsData(l) == l.k = "data"

\* len(s) < 30
TomsShort(l) ==
    \/ l.k \in {"sku", "data", "end"}
    \/ l.k = "text" /\ l.short

\* ^(.+?)\s+(\d+)\s+(\d+%)\s+[£$€]\s*([\d,]+\.?\d*)\s+[£$€]\s*([\d,]+\.?\d*)$
TomsDescData(l) == l.k \in {"skudata", "descdata", "descskudata"}

\* group(1) of that pattern: all the text before the quantity.
TomsBeforeQuantity(l, pg, n) ==
    IF l.k = "skudata" THEN <<Piece(pg, n, "sku")>>
    ELSE IF l.k = "descskudata" THEN <<Piece(pg, n, "title"), Piece(pg, n, "middle")>>
    ELSE <<Piece(pg, n, "title")>>

\* ^(\d+)\s+(\d+%)\s+[£$€]\s*([\d,]+\.?\d*)\s+[£$€]\s*([\d,]+\.?\d*)$
TomsDataOnly(l) == l.k = "data"

\* ^(.+?)\s+([A-Z0-9\-\.]+)$ : the last word of a line with data is its total.
TomsEndsWithSku(l) == l.k \in {"hdr", "end", "textsku"} \/ TomsHasData(l)

\* group(1) and group(2) of that pattern.
TomsLeading(l, pg, n) ==
    IF l.k = "textsku" THEN <<Piece(pg, n, "title")>> ELSE <<Piece(pg, n, "lead")>>

TomsTrailing(l, pg, n) ==
    IF l.k = "textsku" THEN <<Piece(pg, n, "sku")>> ELSE <<Piece(pg, n, "last")>>

\* "-" in group(2)
TomsTrailingHyphen(l) == l.k = "textsku" /\ l.hy

\* ^([A-Z0-9\-]+)\s+(\d+)\s+(\d+%)\s+[£$€]\s*([\d,]+\.?\d*)\s+[£$€]\s*([\d,]+\.?\d*)$
TomsSkuData(l) == l.k = "skudata"

\* (.+?)\s+([A-Z0-9\-]+)\s+(\d+)\s+(\d+%)\s+[£$€]\s*(...)\s+[£$€]\s*(...)$
TomsDescSkuData(l) == l.k = "descskudata"

\* int(qty_str), float(unit_price_str.replace(",", "")), float(total_str...)
TomsConverts(l) == l.ok

\* line.strip()
TomsWhole(pg, n) == <<Piece(pg, n, "line")>>

TomsItem(rule, q, full_sku, description, pg, n) ==
    [quantity |-> q, item_number |-> full_sku, sku |-> full_sku,
     product_description |-> description, rule |-> rule, pg |-> pg, ln |-> n]

\* The conditions on the lines of Patterns C, D, E and F at cursor i.
TomsPattern(rule, lines, j) ==
    IF rule = "C"
    THEN /\ j + 2 <= Len(lines)
         /\ TomsSkuPart(lines[j]) /\ lines[j].hy
         /\ TomsSkuPart(lines[j + 2])
         /\ ~TomsHasData(lines[j]) /\ ~TomsHasData(lines[j + 2])
         /\ TomsDescData(lines[j + 1])
    ELSE IF rule = "D"
    THEN /\ j + 4 <= Len(lines)
         /\ ~TomsHasData(lines[j])
         /\ TomsSkuPart(lines[j + 1])
         /\ TomsSkuPart(lines[j + 3])
         /\ ~TomsHasData(lines[j + 4])
         /\ TomsDescData(lines[j + 2])
    ELSE IF rule = "E"
    THEN /\ j + 2 <= Len(lines)
         /\ TomsEndsWithSku(lines[j])
         /\ TomsDataOnly(lines[j + 1])
         /\ TomsEndsWithSku(lines[j + 2])
         /\ TomsTrailingHyphen(lines[j])
    ELSE /\ j + 2 <= Len(lines)
         /\ TomsSkuData(lines[j + 1])
         /\ ~TomsHasData(lines[j])
         /\ ~TomsHasData(lines[j + 2])
         /\ lines[j + 1].hy

\* The line of the pattern that holds the quantity and the prices.
TomsDataLine(rule, j) == IF rule = "D" THEN j + 2 ELSE j + 1

\* The pattern matches and the try block reaches  matched = True.
TomsMatches(rule, lines, j) ==
    /\ TomsPattern(rule, lines, j)
    /\ TomsConverts(lines[TomsDataLine(rule, j)])

\* The record of Pattern C, D, E or F at cursor i.
TomsPatternItem(rule, lines, pg, j) ==
    IF rule = "C"
    THEN TomsItem("C", lines[j + 1].q, TomsWhole(pg, j) \o TomsWhole(pg, j + 2),
                  TomsBeforeQuantity(lines[j + 1], pg, j + 1), pg, j)
    ELSE IF rule = "D"
    THEN TomsItem("D", lines[j + 2].q, TomsWhole(pg, j + 1) \o TomsWhole(pg, j + 3),
                  TomsWhole(pg, j) \o TomsBeforeQuantity(lines[j + 2], pg, j + 2)
                      \o TomsWhole(pg, j + 4), pg, j)
    ELSE IF rule = "E"
    THEN TomsItem("E", lines[j + 1].q,
                  TomsTrailing(lines[j], pg, j) \o TomsTrailing(lines[j + 2], pg, j + 2),
                  TomsLeading(lines[j], pg, j) \o TomsLeading(lines[j + 2], pg, j + 2),
                  pg, j)
    ELSE TomsItem("F", lines[j + 1].q, <<Piece(pg, j + 1, "sku")>>,
                  TomsWhole(pg, j) \o TomsWhole(pg, j + 2), pg, j)

\* The lines Patterns C, D, E and F pass: i += 3, i += 5, i += 3, i += 3.
TomsConsumed(rule) == IF rule = "D" THEN 5 ELSE 3

\* The order in which the patterns guarded by  not matched  are tried.
TomsTried_F_first == <<"F", "C", "D", "E">>

TomsTried == <<"C", "D", "E", "F">>

\* The first of them that matches at cursor i, "" when none does.
TomsFirst(lines, j) ==
    LET ms == {n \in DOMAIN TomsTried : TomsMatches(TomsTried[n], lines, j)}
    IN  IF ms = {} THEN ""
        ELSE TomsTried[CHOOSE n \in ms : \A m \in ms : n <= m]

\* sku_parts of Patterns A and B: the line before the cursor when it is not
\* empty, has no data and is short; the line at suffix when it is not empty,
\* does not start with data and is short.
TomsPrefix(lines, pg, j) ==
    IF j > 1 /\ ~TomsHasData(lines[j - 1]) /\ TomsShort(lines[j - 1])
    THEN TomsWhole(pg, j - 1) ELSE <<>>

TomsSuffix(lines, pg, suffix) ==
    IF suffix <= Len(lines) /\ ~TomsStartsData(lines[suffix]) /\ TomsShort(lines[suffix])
    THEN TomsWhole(pg, suffix) ELSE <<>>

\* What one turn of  while i < len(lines)  inside the item window does at a
\* line that is neither header nor end: the rule applied, the records
\* appended and the lines the cursor moves.
TomsTurn(lines, pg, j, izq) ==
    LET rule == TomsFirst(lines, j)
        line == lines[j]
    IN  IF rule # ""
        THEN [rule |-> rule, adv |-> TomsConsumed(rule),
              out |-> LET it == TomsPatternItem(rule, lines, pg, j)
                      IN  IF it.quantity > 0 \/ izq THEN <<it>> ELSE <<>>]
        ELSE IF TomsDescSkuData(line) /\ ~line.hy
        THEN [rule |-> "A", adv |-> 1, out |-> <<>>]
        ELSE IF TomsDescSkuData(line) /\ line.q = 0 /\ ~izq
        THEN [rule |-> "A", adv |-> 1, out |-> <<>>]
        ELSE IF TomsDescSkuData(line) /\ TomsConverts(line)
        THEN [rule |-> "A", adv |-> 2,
              out |-> <<TomsItem("A", line.q,
                            TomsPrefix(lines, pg, j) \o <<Piece(pg, j, "middle")>>
                                \o TomsSuffix(lines, pg, j + 1),
                            <<Piece(pg, j, "title")>>, pg, j)>>]
        ELSE IF j + 1 <= Len(lines) /\ TomsSkuData(lines[j + 1])
                /\ lines[j + 1].q = 0 /\ ~izq
        THEN [rule |-> "B", adv |-> 2, out |-> <<>>]
        ELSE IF j + 1 <= Len(lines) /\ TomsSkuData(lines[j + 1])
                /\ TomsConverts(lines[j + 1])
        THEN [rule |-> "B", adv |-> 4,
              out |-> <<TomsItem("B", lines[j + 1].q,
                            TomsPrefix(lines, pg, j) \o <<Piece(pg, j + 1, "sku")>>
                                \o TomsSuffix(lines, pg, j + 3),
                            TomsWhole(pg, j)
                                \o (IF j + 2 <= Len(lines) THEN TomsWhole(pg, j + 2)
                                    ELSE <<>>),
                            pg, j)>>]
        ELSE [rule |-> "", adv |-> 1, out |-> <<>>]

\* for page in pdf.pages: text = page.extract_text(); if not text: continue;
\* lines = text.split("\n"); in_items = False; i = 0
TomsPage ==
    /\ pc = "page"
    /\ vendor = "toms_studio"
    /\ IF p > Len(doc)
       THEN pc' = "done" /\ UNCHANGED <<p, i, in_items, scanned>>
       ELSE /\ scanned' = scanned \cup {p}
            /\ IF doc[p].lines = <<>>
               THEN p' = p + 1 /\ UNCHANGED <<pc, i, in_items>>
               ELSE pc' = "line" /\ i' = 1 /\ p' = p /\ in_items' = FALSE
    /\ UNCHANGED <<callVars, text, ownVars, invoice_format, vendor,
                   include_zero_qty, doc, table_idx, pending_item_number, items>>

\* One turn of  while i < len(lines)  (or its end, or its break).
TomsLine ==
    /\ pc = "line"
    /\ vendor = "toms_studio"
    /\ LET lines == doc[p].lines
       IN  IF i > Len(lines)
           THEN pc' = "page" /\ p' = p + 1 /\ UNCHANGED <<i, in_items, items>>
           ELSE IF TomsIsHeader(lines[i])
           THEN in_items' = TRUE /\ i' = i + 1 /\ UNCHANGED <<pc, p, items>>
           ELSE IF in_items /\ TomsIsEnd(lines[i])
           THEN pc' = "page" /\ p' = p + 1 /\ UNCHANGED <<i, in_items, items>>
           ELSE IF in_items
           THEN LET turn == TomsTurn(lines, p, i, include_zero_qty)
                IN  /\ items' = items \o turn.out
                    /\ i' = i + turn.adv
                    /\ UNCHANGED <<pc, p, in_items>>
           ELSE i' = i + 1 /\ UNCHANGED <<pc, p, in_items, items>>
    /\ UNCHANGED <<callVars, text, ownVars, invoice_format, vendor,
                   include_zero_qty, doc, table_idx, pending_item_number,
                   scanned>>

\* One page of lines: short pages of any lines, with or without the header
\* above them, and longer item windows.
TomsDocs ==
    { <<[lines |-> s, tables |-> <<>>]>> :
        s \in SeqsUpTo(TomsCore \cup {[k |-> "hdr"], [k |-> "end"]}, MaxTomsLen) }
    \cup { <<[lines |-> <<[k |-> "hdr"]>> \o s, tables |-> <<>>]>> :
             s \in SeqsUpTo(TomsLines, MaxTomsLen) \cup SeqsUpTo(TomsCore, MaxTomsBody) }

InitToms == ScanInit("toms_studio", TomsDocs)

NextToms == TomsPage \/ TomsLine

SpecToms == InitToms /\ [][NextToms]_vars

-----------------------------------------------------------------------------
(* Lamy: LamyParser.parse.  A line is one of                                *)
(*   hdr      a line with "Quantity" and "Item": with "Back Ordered" (old), *)
(*            else with "UPC Code" (new), else with neither ("")            *)
(*   end      a line with SUBTOTAL, SUB TOTAL or Sub-Total                  *)
(*   olditem  "2 0 L376 $24.75 $49.50"                                      *)
(*   newitem  "2 L376 021274316352 $55.00 50% less $24.75 $49.50"           *)
(*   plain    any other line ("10%", a description)                         *)
(* An item line carries its quantity q and ok, false when a price is        *)
(* written without a digit ("$."), which the patterns accept and float()    *)
(* rejects.                                                                 *)

MaxLamyLen == 4

LamyData == {[q |-> 2, ok |-> TRUE], [q |-> 0, ok |-> TRUE], [q |-> 2, ok |-> FALSE]}

LamyLines ==
    {[k |-> "hdr", format |-> f] : f \in {"old", "new", ""}}
    \cup {[k |-> "end"], [k |-> "plain"]}
    \cup {[k |-> "olditem", q |-> d.q, ok |-> d.ok] : d \in LamyData}
    \cup {[k |-> "newitem", q |-> d.q, ok |-> d.ok] : d \in LamyData}

\* The pattern of the format matches the line.
LamyMatches(format, l) ==
    \/ format = "old" /\ l.k = "olditem"
    \/ format = "new" /\ l.k = "newitem"

\* lines[i + 1].strip() of the old format, lines[i + 2].strip() of the new
\* one, "" past the end of the page.
LamyDescription(format, lines, pg, j) ==
    LET d == IF format = "old" THEN j + 1 ELSE j + 2
    IN  IF d <= Len(lines) THEN <<Piece(pg, d, "line")>> ELSE <<>>

\* i += 2 of the old format, i += 3 of the new one.
LamySkip(format) == IF format = "old" THEN 2 ELSE 3

\* for page in pdf.pages: text = page.extract_text(); if not text: continue;
\* lines = text.split("\n"); in_items = False; invoice_format = None; i = 0
LamyPage ==
    /\ pc = "page"
    /\ vendor = "lamy"
    /\ IF p > Len(doc)
       THEN pc' = "done" /\ UNCHANGED <<p, i, in_items, invoice_format, scanned>>
       ELSE /\ scanned' = scanned \cup {p}
            /\ IF doc[p].lines = <<>>
               THEN p' = p + 1 /\ UNCHANGED <<pc, i, in_items, invoice_format>>
               ELSE /\ pc' = "line" /\ i' = 1 /\ p' = p
                    /\ in_items' = FALSE /\ invoice_format' = ""
    /\ UNCHANGED <<calls, custom_items, queue, results, last_header, text,
                   ownVars, vendor, include_zero_qty, doc, table_idx,
                   pending_item_number, items>>

\* One turn of  while i < len(lines)  (or its end, or its break).
LamyLine ==
    /\ pc = "line"
    /\ vendor = "lamy"
    /\ LET lines == doc[p].lines
       IN  IF i > Len(lines)
           THEN /\ pc' = "page" /\ p' = p + 1
                /\ UNCHANGED <<i, in_items, invoice_format, items>>
           ELSE IF lines[i].k = "hdr"
           THEN /\ in_items' = TRUE
                /\ invoice_format' =
                       IF lines[i].format = "" THEN invoice_format ELSE lines[i].format
                /\ i' = i + 1
                /\ UNCHANGED <<pc, p, items>>
           ELSE IF in_items /\ lines[i].k = "end"
           THEN /\ pc' = "page" /\ p' = p + 1
                /\ UNCHANGED <<i, in_items, invoice_format, items>>
           ELSE IF in_items /\ LamyMatches(invoice_format, lines[i])
                   /\ lines[i].q = 0 /\ ~include_zero_qty
           THEN /\ i' = i + LamySkip(invoice_format)
                /\ UNCHANGED <<pc, p, in_items, invoice_format, items>>
           ELSE IF in_items /\ LamyMatches(invoice_format, lines[i]) /\ lines[i].ok
           THEN /\ items' = Append(items,
                        [quantity |-> lines[i].q,
                         item_number |-> <<Piece(p, i, "code")>>,
                         sku |-> <<Piece(p, i, "code")>>,
                         product_description |->
                             LamyDescription(invoice_format, lines, p, i),
                         format |-> invoice_format, pg |-> p, ln |-> i])
                /\ i' = i + LamySkip(invoice_format)
                /\ UNCHANGED <<pc, p, in_items, invoice_format>>
           ELSE i' = i + 1 /\ UNCHANGED <<pc, p, in_items, invoice_format, items>>
    /\ UNCHANGED <<calls, custom_items, queue, results, last_header, text,
                   ownVars, vendor, include_zero_qty, doc, table_idx,
                   pending_item_number, scanned>>

InitLamy == ScanInit("lamy", TextDocs(LamyLines, MaxLamyLen))

NextLamy == LamyPage \/ LamyLine

SpecLamy == InitLamy /\ [][NextLamy]_vars

-----------------------------------------------------------------------------
(* Write USA: WriteUSAParser.parse.  A table is a sequence of rows, a row a *)
(* sequence of cells, a cell a sequence of words (<<>> is None or "").      *)
(* pc = "raised" when an exception leaves parse.                            *)

MaxWriteUSARows == 2

\* any("Item" in str(col) for col in header) and any("Qty" in str(col) ...)
WriteUSAStandard(header) ==
    /\ \E n \in DOMAIN header : HasWord(header[n], "Item")
    /\ \E n \in DOMAIN header : HasWord(header[n], "Qty")

\* The word of the if/elif chain that takes column col: the first of item,
\* description, qty, rate, amt in the lower-cased cell.
WriteUSATakes(col) ==
    IF HasWord(col, "Item") THEN "Item"
    ELSE IF HasWord(col, "Description") THEN "Description"
    ELSE IF HasWord(col, "Qty") THEN "Qty"
    ELSE IF HasWord(col, "Rate") THEN "Rate"
    ELSE IF HasWord(col, "Amt") THEN "Amt"
    ELSE ""

\* item_idx, desc_idx, qty_idx, rate_idx, amt_idx: the first column taken by
\* the word, 1-based, 0 for None.
WriteUSAIndex(header, w) ==
    LET cols == {n \in DOMAIN header : WriteUSATakes(header[n]) = w}
    IN  IF cols = {} THEN 0 ELSE CHOOSE n \in cols : \A m \in cols : n <= m

WriteUSAColumns == <<"Item", "Description", "Qty", "Rate", "Amt">>

\* None in [item_idx, desc_idx, qty_idx, rate_idx, amt_idx]
WriteUSAIncomplete(header) ==
    \E n \in DOMAIN WriteUSAColumns : WriteUSAIndex(header, WriteUSAColumns[n]) = 0

\* The columns of a table without header: Item, Description, Qty, Rate, Amt.
WriteUSAColumn(header, w) ==
    IF WriteUSAStandard(header)
    THEN WriteUSAIndex(header, w)
    ELSE CHOOSE n \in DOMAIN WriteUSAColumns : WriteUSAColumns[n] = w

\* str(row[idx]).strip() if row[idx] else "0", then int() or float(): the
\* cell is empty or a string of digits.
WriteUSANumber(cell) == cell = <<>> \/ IsDigit(cell)

\* "SUBTOTAL" in str(row[0]) or "SHIPPING" ... or "TAX" ... or "TOTAL" ...
WriteUSAStops(cell) == HasWord(cell, "TOTAL")

\* The try block of a data row reaches items.append: every index is inside
\* the row and quantity, rate and amount convert.
WriteUSAConverts(header, row) ==
    /\ \A n \in DOMAIN WriteUSAColumns :
          WriteUSAColumn(header, WriteUSAColumns[n]) <= Len(row)
    /\ WriteUSANumber(row[WriteUSAColumn(header, "Qty")])
    /\ WriteUSANumber(row[WriteUSAColumn(header, "Rate")])
    /\ WriteUSANumber(row[WriteUSAColumn(header, "Amt")])

WriteUSARecord(header, row, pg, tb, n) ==
    [quantity |-> IntOf(row[WriteUSAColumn(header, "Qty")]),
     item_number |-> row[WriteUSAColumn(header, "Item")],
     sku |-> row[WriteUSAColumn(header, "Item")],
     product_description |-> row[WriteUSAColumn(header, "Description")],
     pg |-> pg, tb |-> tb, ln |-> n]

\* for page in pdf.pages: tables = page.extract_tables(); if not tables: continue
WriteUSAPage ==
    /\ pc = "page"
    /\ vendor = "writeusa"
    /\ IF p > Len(doc)
       THEN pc' = "done" /\ UNCHANGED <<p, table_idx, scanned>>
       ELSE /\ scanned' = scanned \cup {p}
            /\ IF doc[p].tables = <<>>
               THEN p' = p + 1 /\ UNCHANGED <<pc, table_idx>>
               ELSE pc' = "table" /\ table_idx' = 1 /\ p' = p
    /\ UNCHANGED <<callVars, text, ownVars, invoice_format, vendor,
                   include_zero_qty, doc, i, in_items, pending_item_number,
                   items>>

\* One iteration of  for table in tables  up to its loop over the rows.
WriteUSATable ==
    /\ pc = "table"
    /\ vendor = "writeusa"
    /\ IF table_idx > Len(doc[p].tables)
       THEN pc' = "page" /\ p' = p + 1 /\ UNCHANGED <<table_idx, i>>
       ELSE LET table == doc[p].tables[table_idx]
            IN  IF Len(table) < 2
                THEN table_idx' = table_idx + 1 /\ UNCHANGED <<pc, p, i>>
                ELSE IF WriteUSAStandard(table[1])
                THEN IF WriteUSAIncomplete(table[1])
                     THEN table_idx' = table_idx + 1 /\ UNCHANGED <<pc, p, i>>
                     ELSE pc' = "row" /\ i' = 2 /\ UNCHANGED <<p, table_idx>>
                ELSE IF table[1] = <<>> \/ table[1][1] = <<>>
                        \/ \E n \in DOMAIN table[1] : WriteUSAStops(table[1][n])
                     THEN table_idx' = table_idx + 1 /\ UNCHANGED <<pc, p, i>>
                     ELSE pc' = "row" /\ i' = 1 /\ UNCHANGED <<p, table_idx>>
    /\ UNCHANGED <<callVars, text, ownVars, invoice_format, vendor,
                   include_zero_qty, doc, in_items, pending_item_number,
                   scanned, items>>

\* One iteration of  for row in table[1:]  or of  for row in table  (or its
\* end, or its break).
WriteUSARow ==
    /\ pc = "row"
    /\ vendor = "writeusa"
    /\ LET table == doc[p].tables[table_idx]
           header == table[1]
           item_idx == WriteUSAColumn(header, "Item")
       IN  IF i > Len(table)
           THEN pc' = "table" /\ table_idx' = table_idx + 1 /\ UNCHANGED <<i, items>>
           ELSE LET row == table[i]
                IN  IF WriteUSAStandard(header)
                    THEN IF row = <<>>
                         THEN i' = i + 1 /\ UNCHANGED <<pc, table_idx, items>>
                         ELSE IF item_idx > Len(row)
                         THEN pc' = "raised" /\ UNCHANGED <<i, table_idx, items>>
                         ELSE /\ i' = i + 1
                              /\ UNCHANGED <<pc, table_idx>>
                              /\ IF /\ row[item_idx] # <<>>
                                    /\ WriteUSAConverts(header, row)
                                    /\ \/ IntOf(row[WriteUSAColumn(header, "Qty")]) # 0
                                       \/ include_zero_qty
                                 THEN items' = Append(items,
                                          WriteUSARecord(header, row, p, table_idx, i))
                                 ELSE items' = items
                    ELSE IF row = <<>> \/ Len(row) < 5
                         THEN i' = i + 1 /\ UNCHANGED <<pc, table_idx, items>>
                         ELSE IF row[1] = <<>> \/ WriteUSAStops(row[1])
                         THEN /\ pc' = "table" /\ table_idx' = table_idx + 1
                              /\ UNCHANGED <<i, items>>
                         ELSE /\ i' = i + 1
                              /\ UNCHANGED <<pc, table_idx>>
                              /\ IF /\ WriteUSAConverts(header, row)
                                    /\ \/ IntOf(row[WriteUSAColumn(header, "Qty")]) # 0
                                       \/ include_zero_qty
                                 THEN items' = Append(items,
                                          WriteUSARecord(header, row, p, table_idx, i))
                                 ELSE items' = items
    /\ UNCHANGED <<callVars, text, ownVars, invoice_format, vendor,
                   include_zero_qty, doc, p, in_items, pending_item_number,
                   scanned>>

\* The header rows of the tables of the model.
WriteUSAHeaders ==
    { << <<"Item">>, <<"Description">>, <<"Qty">>, <<"Rate">>, <<"Amt">> >>,
      << <<"Qty">>, <<"Item">>, <<"Description">>, <<"Rate">>, <<"Amt">> >>,
      << <<"Item">>, <<"Qty">> >> }

\* The cells of the model under a column.
WriteUSACells(w) ==
    IF w = "Item" THEN {<<>>, <<"A1">>, <<"TOTAL">>}
    ELSE IF w = "Description" THEN {<<"pen">>}
    ELSE IF w = "Qty" THEN {<<"2">>, <<"0">>, <<"x">>}
    ELSE IF w = "Rate" THEN {<<"2">>, <<"x">>}
    ELSE {<<"2">>}

\* The rows under the columns cols, and the rows that stop short of the
\* last columns.
WriteUSARows(cols) ==
    LET full == {r \in [DOMAIN cols -> UNION {WriteUSACells(w) :
                                               w \in {cols[n] : n \in DOMAIN cols}}] :
                    \A n \in DOMAIN cols : r[n] \in WriteUSACells(cols[n])}
    IN  {SubSeq(r, 1, m) : r \in full, m \in 0..Len(cols)}

\* A table with one of the headers, and a table without header, of up to
\* nr rows.
WriteUSATables(nr) ==
    UNION { {<<h>> \o rs :
                rs \in SeqsUpTo(WriteUSARows([n \in DOMAIN h |-> h[n][1]]), nr)} :
            h \in WriteUSAHeaders }
    \cup (SeqsUpTo(WriteUSARows(WriteUSAColumns), nr) \ {<<>>})

\* One page with up to two tables.
WriteUSADocs(nr) ==
    { <<TablePage(ts)>> : ts \in SeqsUpTo(WriteUSATables(nr), 1) }
    \cup { <<TablePage(<<t, << <<>>, <<>> >> >>)>> : t \in WriteUSATables(nr) }

InitWriteUSA == ScanInit("writeusa", WriteUSADocs(MaxWriteUSARows))

NextWriteUSA == WriteUSAPage \/ WriteUSATable \/ WriteUSARow

SpecWriteUSA == InitWriteUSA /\ [][NextWriteUSA]_vars

-----------------------------------------------------------------------------
(* The documents of the generic parser read cell by cell.                   *)

MaxAbove == 5
MaxFlowLen == 4

\* The cells of the model under a column of GenericHeader.
GenericQtyCells == {<<"2">>, <<"0">>, <<"2.5">>, <<"x">>, <<>>}
GenericItemCells == {<<"ABC1">>, <<"A1/B2">>, <<"None">>, <<>>}
GenericSkuCells == {<<"ABC1">>, <<>>}
GenericDescriptionCells == {<<"Widget">>, <<"Blue", " ", "\n", "pen">>, <<>>}
GenericPriceCells == {<<"2.50">>, <<"$2.50">>, <<"n/a">>}

\* The rows in the column order of GenericHeader.
GenericDataRows ==
    { <<q, it, s, d, pr, <<"5.00">> >> :
        q \in GenericQtyCells, it \in GenericItemCells, s \in GenericSkuCells,
        d \in GenericDescriptionCells, pr \in GenericPriceCells }

\* Column orders: column n of the table holds column order[n] of
\* GenericHeader.
GenericOrders == { <<1, 2, 3, 4, 5, 6>>, <<6, 5, 4, 3, 2, 1>>, <<4, 1, 6, 2, 5, 3>> }

Reordered(row, order) == [n \in DOMAIN order |-> row[order[n]]]

\* One table: the header in some column order and a data row under it.
GenericMappingDocs ==
    { <<TablePage(<< <<Reordered(GenericHeader, o), Reordered(r, o)>> >>)>> :
        o \in GenericOrders, r \in GenericDataRows }

\* A row that gives a record under every header of the model.
GenericGoodRow ==
    << <<"2">>, <<"ABC1">>, <<"ABC1">>, <<"Widget">>, <<"2.50">>, <<"5.00">> >>

\* Rows with three or more of the indicators, and rows with two.
GenericHeaderLike ==
    { GenericHeader,
      << <<"Qty">>, <<"Item#">>, <<"Price">>, <<"Description">> >>,
      << <<"Total">>, <<"Item#">>, <<"SKU">>, <<"Description">>, <<"Qty">> >>,
      << <<"Item#">>, <<"Description">>, <<"Price">>, <<"Notes">> >>,
      << <<"Qty">>, <<"Description">>, <<"Price">>, <<"Notes">> >> }

RECURSIVE Copies(_, _)
Copies(row, n) == IF n = 0 THEN <<>> ELSE <<row>> \o Copies(row, n - 1)

\* One table with rows above and below a header-like row, alone or after a
\* table with a header.
GenericHeaderTables ==
    { Copies(GenericGoodRow, k) \o <<h>> \o Copies(GenericGoodRow, m) :
        k \in 0..MaxAbove, h \in GenericHeaderLike, m \in 0..1 }

GenericHeaderDocs ==
    { <<TablePage(<<t>>)>> : t \in GenericHeaderTables }
    \cup { <<TablePage(<< <<GenericHeader, GenericGoodRow>>, t >>)>> :
             t \in GenericHeaderTables }

\* The rows of a table without header: up to one empty cell before and
\* after four, five or six cells in the order quantity, item number, sku,
\* description, price, amount.
GenericCores ==
    { SubSeq(<<q, it, s, d, pr, <<"5.00">> >>, 1, n) :
        q \in {<<"2">>, <<"x">>, <<" ">>}, it \in {<<"ABC1">>, <<"A1/B2">>, <<>>},
        s \in GenericSkuCells, d \in {<<"Widget">>, <<>>},
        pr \in {<<"2.50">>, <<"n/a">>}, n \in 4..6 }

GenericContinuationRows ==
    { Copies(<<>>, a) \o c \o Copies(<<>>, b) : a, b \in 0..1, c \in GenericCores }

\* A table with the header, and a table of one row without header after it
\* on the same page or on the next.
GenericContinuationDocs ==
    { <<TablePage(<< <<GenericHeader>>, <<r>> >>)>> : r \in GenericContinuationRows }
    \cup { <<TablePage(<< <<GenericHeader, GenericGoodRow>> >>), TablePage(<< <<r>> >>)>> :
             r \in GenericContinuationRows }

\* Documents of up to MaxTables tables, each on the page of the table
\* before it or on a new page.

MaxTables == 3

GenericReversed == <<6, 5, 4, 3, 2, 1>>

\* A table with the header only, a table with the header in reversed column
\* order and a row, and tables without header.
GenericFlowTables ==
    { <<GenericHeader>>,
      <<Reordered(GenericHeader, GenericReversed), Reordered(GenericGoodRow, GenericReversed)>>,
      <<GenericGoodRow>>,
      << << <<"x">>, <<"ABC1">>, <<"ABC1">>, <<"Widget">>, <<"2.50">>, <<"5.00">> >> >> }

\* The pages of the tables ts[1..n]; table m starts a page when new[m].
RECURSIVE GenericLaidOut(_, _, _)
GenericLaidOut(ts, new, n) ==
    IF n = 0 THEN <<>>
    ELSE LET before == GenericLaidOut(ts, new, n - 1)
         IN  IF n = 1 \/ new[n]
             THEN Append(before, TablePage(<<ts[n]>>))
             ELSE [before EXCEPT ![Len(before)].tables = Append(@, ts[n])]

GenericFlowDocs ==
    UNION { { GenericLaidOut(ts, new, n) :
                ts \in [1..n -> GenericFlowTables], new \in [1..n -> BOOLEAN] } :
            n \in 1..MaxTables }

\* Cells as extracted from a text whose encoding failed in places, with
\* currency marks, and with words that are no plain number.
GenericEncodedQty ==
    {<<"2">>, <<"(cid:50)">>, <<"inf">>, <<"nan">>, <<"1,000">>, <<"-2">>}

GenericEncodedItem ==
    {<<"A1">>, <<"A1(cid:47)B2">>, <<"(cid:65)1">>, <<"A1/B2/C3">>, <<"/A1">>,
     <<"A1", " ", "/", " ", "B2">>}

GenericEncodedSku == {<<"S1">>, <<"(cid:78)one">>, <<"S(cid:49)">>}

GenericEncodedDescription ==
    {<<"Widget">>, <<"Wid(cid:46)get", " ", "(cid:999)">>, <<"(cid:87)idget">>,
     <<"(cid:(cid:52)9)", "\n", "(cid:054)(cid:)">>}

GenericEncodedPrice ==
    {<<"2.50">>, <<"(cid:50).50">>, <<"$1,035.20">>, <<"$", " ", "2.50">>,
     <<"USD", " ", "2.50">>, <<"inf">>, <<"n/a">>, <<"(cid:36)2.50">>, <<"$">>}

GenericEncodedAmount == {<<"5.00">>, <<"$(cid:53).00">>, <<"1", " ", "000.00">>}

GenericEncodedRows ==
    { << q, <<"A1">>, <<"S1">>, <<"Widget">>, pr, am >> :
        q \in GenericEncodedQty, pr \in GenericEncodedPrice,
        am \in GenericEncodedAmount }
    \cup { << <<"2">>, it, s, d, <<"2.50">>, <<"5.00">> >> :
             it \in GenericEncodedItem, s \in GenericEncodedSku,
             d \in GenericEncodedDescription }

\* One such row and a plain row under the header, and after a table with
\* the header a table without header that holds them, the first with five
\* cells or with an empty cell behind it.
GenericEncodedDocs ==
    { <<TablePage(<< <<GenericHeader, r, GenericGoodRow>> >>)>> :
        r \in GenericEncodedRows }
    \cup { <<TablePage(<< <<GenericHeader, GenericGoodRow>>,
                          <<c, Append(GenericGoodRow, <<>>)>> >>)>> :
             c \in UNION { {SubSeq(r, 1, 5), Append(r, <<>>)} :
                             r \in GenericEncodedRows } }

InitGeneric ==
    ScanInit("", GenericMappingDocs \cup GenericHeaderDocs \cup GenericContinuationDocs
                 \cup TableDocs(GenericRows, MaxFlowLen) \cup GenericFlowDocs)

NextGeneric == GenericPage \/ GenericTable

SpecGeneric == InitGeneric /\ [][NextGeneric]_vars

\* The generic parser on the documents whose cells hold (cid:N) references,
\* currency marks and words that are no plain number.
InitEncoded == ScanInit("", GenericEncodedDocs)

SpecEncoded == InitEncoded /\ [][NextGeneric]_vars

-----------------------------------------------------------------------------
(* ExaclairParser.parse.  Classes of the line:                             *)
(*   hdr    contains "Item Number Description" or "Ordered Shipped B.      *)
(*          Order"                                                         *)
(*   end    contains "Subtotal", "INVOICE Page" or "Comments:" (no hdr)    *)
(*   blank  line.strip() is empty                                          *)
(*   plain  any other line that does not match the item pattern            *)
(*   item   matches the item pattern; q is the shipped quantity, price and *)
(*          disc the texts of the price and discount groups, tok whether   *)
(*          the total group is a float                                     *)
(* The text of a price or discount group is given with the Decimal it      *)
(* converts to once its commas are removed: c * 10^(-e); ok is FALSE for a *)
(* text that is no Decimal.                                                *)

MaxExaclairLen == 3

ExaclairPrices ==
    { [s |-> "35.20", c |-> 3520, e |-> 2, ok |-> TRUE],
      [s |-> "10.45", c |-> 1045, e |-> 2, ok |-> TRUE],
      [s |-> "0.01", c |-> 1, e |-> 2, ok |-> TRUE],
      [s |-> "10.455", c |-> 10455, e |-> 3, ok |-> TRUE],
      [s |-> "1,000", c |-> 1000, e |-> 0, ok |-> TRUE],
      [s |-> "7", c |-> 7, e |-> 0, ok |-> TRUE],
      [s |-> "1.2.3", c |-> 0, e |-> 0, ok |-> FALSE] }

ExaclairDiscounts ==
    { [s |-> "52.5", c |-> 525, e |-> 1, ok |-> TRUE],
      [s |-> "50.00", c |-> 5000, e |-> 2, ok |-> TRUE],
      [s |-> "0", c |-> 0, e |-> 0, ok |-> TRUE],
      [s |-> "33.333", c |-> 33333, e |-> 3, ok |-> TRUE],
      [s |-> "100", c |-> 100, e |-> 0, ok |-> TRUE],
      [s |-> "5..", c |-> 0, e |-> 0, ok |-> FALSE] }

ExaclairItems ==
    { [k |-> "item", q |-> 2, price |-> pr, disc |-> d, tok |-> TRUE] :
        pr \in ExaclairPrices, d \in ExaclairDiscounts }

\* The lines of the documents of any shape.
ExaclairCore ==
    { [k |-> "hdr"], [k |-> "end"], [k |-> "blank"], [k |-> "plain"],
      [k |-> "item", q |-> 2, price |-> [s |-> "10.45", c |-> 1045, e |-> 2, ok |-> TRUE],
       disc |-> [s |-> "50.00", c |-> 5000, e |-> 2, ok |-> TRUE], tok |-> TRUE],
      [k |-> "item", q |-> 0, price |-> [s |-> "35.20", c |-> 3520, e |-> 2, ok |-> TRUE],
       disc |-> [s |-> "52.5", c |-> 525, e |-> 1, ok |-> TRUE], tok |-> TRUE],
      [k |-> "item", q |-> 2, price |-> [s |-> "35.20", c |-> 3520, e |-> 2, ok |-> TRUE],
       disc |-> [s |-> "52.5", c |-> 525, e |-> 1, ok |-> TRUE], tok |-> FALSE] }

RECURSIVE Pow10(_)
Pow10(n) == IF n = 0 THEN 1 ELSE 10 * Pow10(n - 1)

\* Decimal arithmetic on c * 10^(-e), exact within the 28 digits of the
\* default context:  x / Decimal("100.0"),  1 - x,  x * y.
DecimalPercent(x) == [c |-> x.c, e |-> x.e + 2]

DecimalOneMinus(x) == [c |-> Pow10(x.e) - x.c, e |-> x.e]

DecimalTimes(x, y) == [c |-> x.c * y.c, e |-> x.e + y.e]

\* Mutant of DecimalQuantize: the digits after the second place are cut.
DecimalQuantize_down(x) ==
    IF x.e <= 2 THEN x.c * Pow10(2 - x.e) ELSE x.c \div Pow10(x.e - 2)

\* x.quantize(Decimal("0.01"), rounding=ROUND_HALF_UP) of x >= 0, in cents;
\* float() of it is the float of that many cents.
DecimalQuantize(x) ==
    IF x.e <= 2 THEN x.c * Pow10(2 - x.e)
    ELSE (x.c + 5 * Pow10(x.e - 3)) \div Pow10(x.e - 2)

\* unit_price of a line, in cents.
ExaclairUnitPrice(line) ==
    DecimalQuantize(DecimalTimes(line.price,
                                 DecimalOneMinus(DecimalPercent(line.disc))))

ExaclairRecord(line, pg, ln) ==
    [quantity |-> line.q,
     item_number |-> <<Piece(pg, ln, "item")>>,
     sku |-> <<Piece(pg, ln, "item")>>,
     product_description |-> <<Piece(pg, ln, "desc")>>,
     unit_price |-> ExaclairUnitPrice(line),
     total_amount |-> <<Piece(pg, ln, "total")>>,
     pg |-> pg, ln |-> ln]

\* for page in pdf.pages: text = page.extract_text(); if not text: continue
ExaclairPage ==
    /\ pc = "page"
    /\ vendor = "exaclair"
    /\ IF p > Len(doc)
       THEN pc' = "done" /\ UNCHANGED <<p, i, in_items, scanned>>
       ELSE /\ scanned' = scanned \cup {p}
            /\ IF doc[p].lines = <<>>
               THEN p' = p + 1 /\ UNCHANGED <<pc, i, in_items>>
               ELSE pc' = "line" /\ i' = 1 /\ in_items' = FALSE /\ p' = p
    /\ UNCHANGED <<callVars, text, ownVars, invoice_format, vendor,
                   include_zero_qty, doc, table_idx, pending_item_number, items>>

\* One iteration of  for line in lines  (or its end).  Decimal() of a text
\* that is no number raises decimal.InvalidOperation, which is no
\* ValueError and leaves parse.
ExaclairLine ==
    /\ pc = "line"
    /\ vendor = "exaclair"
    /\ IF i > Len(doc[p].lines)
       THEN pc' = "page" /\ p' = p + 1 /\ UNCHANGED <<i, in_items, items>>
       ELSE LET line == doc[p].lines[i]
            IN  IF line.k = "hdr"
                THEN in_items' = TRUE /\ i' = i + 1 /\ UNCHANGED <<pc, p, items>>
                ELSE IF in_items /\ line.k = "end"
                THEN in_items' = FALSE /\ i' = i + 1 /\ UNCHANGED <<pc, p, items>>
                ELSE IF in_items /\ line.k = "item"
                        /\ ~(line.q = 0 /\ ~include_zero_qty)
                THEN IF ~line.price.ok \/ ~line.disc.ok
                     THEN pc' = "raised" /\ UNCHANGED <<p, i, in_items, items>>
                     ELSE /\ items' = IF line.tok
                                      THEN Append(items, ExaclairRecord(line, p, i))
                                      ELSE items
                          /\ i' = i + 1
                          /\ UNCHANGED <<pc, p, in_items>>
                ELSE i' = i + 1 /\ UNCHANGED <<pc, p, in_items, items>>
    /\ UNCHANGED <<callVars, text, ownVars, invoice_format, vendor,
                   include_zero_qty, doc, table_idx, pending_item_number,
                   scanned>>

\* A page with the header and one item line, and the documents of up to
\* MaxExaclairLen lines and page breaks.
ExaclairDocs ==
    { << [lines |-> <<[k |-> "hdr"], l>>, tables |-> <<>>] >> : l \in ExaclairItems }
    \cup TextDocs(ExaclairCore, MaxExaclairLen)

InitExaclair == ScanInit("exaclair", ExaclairDocs)

NextExaclair == ExaclairPage \/ ExaclairLine

SpecExaclair == InitExaclair /\ [][NextExaclair]_vars

-----------------------------------------------------------------------------
(* RediformParser.parse.  The text of a page is a sequence of characters;  *)
(* the characters of the model are upper-case letters, lower-case letters, *)
(* digits, the point, the space and the line break.                        *)

MaxRepeat == 3
MaxRediformText == 5

RediformPage(chars) == [text |-> chars, tables |-> <<>>]

\* The length of the run of the first character of s.
RECURSIVE RunLength(_)
RunLength(s) ==
    IF Len(s) <= 1 THEN Len(s)
    ELSE IF s[2] = s[1] THEN 1 + RunLength(Tail(s)) ELSE 1

\* The first position of s where n or more copies of a character other
\* than the line break start; 0 when there is none.
FirstRun(s, n) ==
    LET at == {m \in DOMAIN s :
                  /\ s[m] # "\n"
                  /\ m + n - 1 <= Len(s)
                  /\ \A k \in 1..(n - 1) : s[m + k] = s[m]}
    IN  IF at = {} THEN 0 ELSE CHOOSE m \in at : \A k \in at : m <= k

\* Mutant of RediformCleaned: runs of two characters are collapsed too.
RECURSIVE RediformCleaned_pairs(_)
RediformCleaned_pairs(s) ==
    IF FirstRun(s, 2) = 0 THEN s
    ELSE SubSeq(s, 1, FirstRun(s, 2))
         \o RediformCleaned_pairs(
                SubSeq(s, FirstRun(s, 2)
                          + RunLength(SubSeq(s, FirstRun(s, 2), Len(s))), Len(s)))

\* re.sub(r"(.)\1{2,}", r"\1", text): from left to right, a character other
\* than the line break that is followed by two or more copies of itself is
\* kept once and its copies are dropped; the text between two such runs
\* is kept.
RECURSIVE RediformCleaned(_)
RediformCleaned(s) ==
    IF FirstRun(s, 3) = 0 THEN s
    ELSE SubSeq(s, 1, FirstRun(s, 3))
         \o RediformCleaned(
                SubSeq(s, FirstRun(s, 3)
                          + RunLength(SubSeq(s, FirstRun(s, 3), Len(s))), Len(s)))

\* s.split("\n")
RECURSIVE SplitLines(_)
SplitLines(s) ==
    IF \A n \in DOMAIN s : s[n] # "\n" THEN <<s>>
    ELSE LET n == CHOOSE n \in DOMAIN s :
                      s[n] = "\n" /\ \A m \in 1..(n - 1) : s[m] # "\n"
         IN  <<SubSeq(s, 1, n - 1)>> \o SplitLines(SubSeq(s, n + 1, Len(s)))

\* The characters of s before its first whitespace and after its last.
RECURSIVE FirstWord(_)
FirstWord(s) ==
    IF s = <<>> \/ Head(s) \in Whitespace THEN <<>>
    ELSE <<Head(s)>> \o FirstWord(Tail(s))

RECURSIVE LastWord(_)
LastWord(s) ==
    IF s = <<>> \/ s[Len(s)] \in Whitespace THEN <<>>
    ELSE Append(LastWord(SubSeq(s, 1, Len(s) - 1)), s[Len(s)])

\* s without its first word and the whitespace after it, and without its
\* last word and the whitespace before it.
AfterFirstWord(s) == LStrip(SubSeq(s, Len(FirstWord(s)) + 1, Len(s)))

BeforeLastWord(s) == RStrip(SubSeq(s, 1, Len(s) - Len(LastWord(s))))

UpperOrDigit ==
    {"A", "B", "C", "D", "E", "I", "K", "N", "O", "P", "S", "V",
     "0", "1", "2", "3", "5"}

DigitOrPoint == {"0", "1", "2", "3", "5", "."}

DigitValue(c) ==
    CASE c = "0" -> 0 [] c = "1" -> 1 [] c = "2" -> 2 [] c = "3" -> 3 [] c = "5" -> 5

\* float(w) of a word of digits and points is a number when w has at most
\* one point and a digit.
IsFloatWord(w) ==
    /\ Cardinality({n \in DOMAIN w : w[n] = "."}) <= 1
    /\ \E n \in DOMAIN w : w[n] # "."

\* int(float(w)): the number written before the point.
RECURSIVE IntOfDigits(_)
IntOfDigits(w) ==
    IF w = <<>> THEN 0
    ELSE 10 * IntOfDigits(SubSeq(w, 1, Len(w) - 1)) + DigitValue(w[Len(w)])

BeforePoint(w) ==
    IF \E n \in DOMAIN w : w[n] = "."
    THEN SubSeq(w, 1, (CHOOSE n \in DOMAIN w : w[n] = ".") - 1)
    ELSE w

\* The groups of the item pattern in the stripped line s:
\*   ^([A-Z0-9]{6,})\s+(.+?)\s+(EA|CS)\s+([\d.]+)\s+([\d.]+)\s+([\d.]+)$
RediformGroups(s) ==
    LET amount == LastWord(s)
        s1 == BeforeLastWord(s)
        price == LastWord(s1)
        s2 == BeforeLastWord(s1)
        qty == LastWord(s2)
        s3 == BeforeLastWord(s2)
        uom == LastWord(s3)
        s4 == BeforeLastWord(s3)
    IN  [item_code |-> FirstWord(s4), description |-> AfterFirstWord(s4),
         uom |-> uom, qty |-> qty, price |-> price, amount |-> amount]

RediformMatches(line) ==
    LET g == RediformGroups(Strip(line))
    IN  /\ Len(g.item_code) >= 6
        /\ \A n \in DOMAIN g.item_code : g.item_code[n] \in UpperOrDigit
        /\ g.description # <<>>
        /\ g.uom \in {<<"E", "A">>, <<"C", "S">>}
        /\ \A w \in {g.qty, g.price, g.amount} :
               w # <<>> /\ \A n \in DOMAIN w : w[n] \in DigitOrPoint

\* needle in line
Contains(line, needle) ==
    \E n \in 0..(Len(line) - Len(needle)) :
        SubSeq(line, n + 1, n + Len(needle)) = needle

RediformStops(line) ==
    \/ Contains(line, <<"S", "u", "b", "t", "o", "t", "a", "l">>)
    \/ Contains(line, <<"M", "E", "R", "C", "H", "A", "N", "D", "I", "S", "E", " ",
                        "T", "O", "T", "A", "L">>)

\* The record of a matching line; the prices are kept as their words.
RediformRecord(line, pg, ln) ==
    LET g == RediformGroups(Strip(line))
    IN  [quantity |-> IntOfDigits(BeforePoint(g.qty)),
         item_number |-> g.item_code,
         sku |-> g.item_code,
         product_description |-> Strip(g.description),
         unit_price |-> g.price,
         total_amount |-> g.amount,
         pg |-> pg, ln |-> ln]

\* for page in pdf.pages: text = page.extract_text(); if not text: continue;
\* cleaned = re.sub(...); lines = cleaned.split("\n")
RediformPageStep ==
    /\ pc = "page"
    /\ vendor = "rediform"
    /\ IF p > Len(doc)
       THEN pc' = "done" /\ UNCHANGED <<p, i, scanned, cleaned>>
       ELSE /\ scanned' = scanned \cup {p}
            /\ IF doc[p].text = <<>>
               THEN p' = p + 1 /\ UNCHANGED <<pc, i, cleaned>>
               ELSE /\ cleaned' = RediformCleaned(doc[p].text)
                    /\ pc' = "line" /\ i' = 1 /\ p' = p
    /\ UNCHANGED <<callVars, text, invoice_format, vendor, include_zero_qty,
                   doc, in_items, table_idx, pending_item_number, items,
                   backorderVars, mainVars, registry>>

\* One iteration of  for line in lines  (or its end, or its break).
RediformLine ==
    /\ pc = "line"
    /\ vendor = "rediform"
    /\ IF i > Len(SplitLines(cleaned))
       THEN pc' = "page" /\ p' = p + 1 /\ UNCHANGED <<i, items>>
       ELSE LET line == SplitLines(cleaned)[i]
                g == RediformGroups(Strip(line))
            IN  IF RediformMatches(line)
                   /\ (~IsFloatWord(g.qty)
                       \/ (IntOfDigits(BeforePoint(g.qty)) = 0 /\ ~include_zero_qty)
                       \/ ~IsFloatWord(g.price) \/ ~IsFloatWord(g.amount))
                THEN i' = i + 1 /\ UNCHANGED <<pc, p, items>>
                ELSE /\ items' = IF RediformMatches(line)
                                 THEN Append(items, RediformRecord(line, p, i))
                                 ELSE items
                     /\ IF RediformStops(line)
                        THEN pc' = "page" /\ p' = p + 1 /\ i' = i
                        ELSE i' = i + 1 /\ UNCHANGED <<pc, p>>
    /\ UNCHANGED <<callVars, text, ownVars, invoice_format, vendor,
                   include_zero_qty, doc, in_items, table_idx,
                   pending_item_number, scanned>>

\* Every character of s written k times.
RECURSIVE Repeated(_, _)
Repeated(s, k) ==
    IF s = <<>> THEN <<>>
    ELSE [n \in 1..k |-> Head(s)] \o Repeated(Tail(s), k)

\* The lines as printed: an item line, one with quantity 0, one with a
\* doubled letter, one with three zeros in its code and its quantity, a
\* Subtotal line and a title.
RediformPrinted ==
    { JoinSpace(<< <<"A", "B", "C", "1", "2", "3">>, <<"P">>, <<"E", "A">>,
                   <<"2">>, <<"1", ".", "5">>, <<"3">> >>),
      JoinSpace(<< <<"A", "B", "C", "1", "2", "3">>, <<"P">>, <<"C", "S">>,
                   <<"0">>, <<"1", ".", "5">>, <<"0">> >>),
      JoinSpace(<< <<"A", "B", "C", "1", "2", "3">>, <<"O", "O">>, <<"E", "A">>,
                   <<"2">>, <<"3">>, <<"5">> >>),
      JoinSpace(<< <<"A", "B", "C", "D", "1", "0", "0", "0">>, <<"P">>,
                   <<"E", "A">>, <<"1", "0", "0", "0">>, <<"1", ".", "5">>, <<"5">> >>),
      JoinSpace(<< <<"S", "u", "b", "t", "o", "t", "a", "l">>, <<"3">> >>),
      <<"I", "N", "V", "O", "I", "C", "E">> }

\* The lines as extracted: every character of a printed line 1 to
\* MaxRepeat times.
RediformLines == { Repeated(l, k) : l \in RediformPrinted, k \in 1..MaxRepeat }

RECURSIVE JoinLines(_)
JoinLines(ls) ==
    IF ls = <<>> THEN <<>>
    ELSE IF Len(ls) = 1 THEN ls[1]
    ELSE ls[1] \o <<"\n">> \o JoinLines(Tail(ls))

\* One page of one line, of two lines the second of which has every
\* character three times, or of up to MaxRediformText characters, and two
\* pages.
RediformDocs ==
    { <<RediformPage(l)>> : l \in RediformLines }
    \cup { <<RediformPage(JoinLines(<<l, Repeated(m, 3)>>))>> :
             l \in RediformLines, m \in RediformPrinted }
    \cup { <<RediformPage(s)>> : s \in SeqsUpTo({"A", "1", " ", "\n"}, MaxRediformText) }
    \cup { <<RediformPage(s), RediformPage(t)>> :
             s, t \in {<<>>} \cup {Repeated(l, 3) : l \in RediformPrinted} }

InitRediform == ScanInit("rediform", RediformDocs)

NextRediform == RediformPageStep \/ RediformLine

SpecRediform == InitRediform /\ [][NextRediform]_vars

-----------------------------------------------------------------------------
(* KenroParser.parse.  A data cell is a sequence of characters; a cell of  *)
(* the header row is one word that keeps its inner space.                   *)

MaxKenroRows == 3

UpperCase ==
    {"A", "B", "C", "D", "E", "F", "G", "H", "I", "J", "K", "L", "M", "N",
     "O", "P", "Q", "R", "S", "T", "U", "V", "W", "X", "Y", "Z"}

LowerCase ==
    {"a", "b", "c", "d", "e", "f", "g", "h", "i", "j", "k", "l", "m", "n",
     "o", "p", "q", "r", "s", "t", "u", "v", "w", "x", "y", "z"}

\* The digits of the model.
DigitChars == DigitOrPoint \ {"."}

\* \w
WordChars == UpperCase \cup LowerCase \cup DigitChars \cup {"_"}

\* despace_sku: re.sub(r"\s+", "", text)
despace_sku(s) == SelectSeq(s, LAMBDA c : c \notin Whitespace)

\* re.sub(r"(?<=[a-z])(?=[A-Z])", " ", text) and re.sub(r"/", " / ", text)
\* on a text without whitespace
RECURSIVE KenroFormatted(_)
KenroFormatted(s) ==
    IF s = <<>> THEN <<>>
    ELSE KenroFormatted(SubSeq(s, 1, Len(s) - 1))
         \o (IF Len(s) > 1 /\ s[Len(s) - 1] \in LowerCase /\ s[Len(s)] \in UpperCase
             THEN <<" ">> ELSE <<>>)
         \o (IF s[Len(s)] = "/" THEN <<" ", "/", " ">> ELSE <<s[Len(s)]>>)

\* re.sub(r"\s+", " ", text)
RECURSIVE SingleSpaced(_)
SingleSpaced(s) ==
    IF s = <<>> THEN <<>>
    ELSE IF s[Len(s)] \notin Whitespace
    THEN Append(SingleSpaced(SubSeq(s, 1, Len(s) - 1)), s[Len(s)])
    ELSE IF Len(s) > 1 /\ s[Len(s) - 1] \in Whitespace
    THEN SingleSpaced(SubSeq(s, 1, Len(s) - 1))
    ELSE Append(SingleSpaced(SubSeq(s, 1, Len(s) - 1)), " ")

despace_and_format_desc(s) == Strip(SingleSpaced(KenroFormatted(despace_sku(s))))

\* re.search(r"(?:\w\s){3,}", s)
is_spaced(s) ==
    \E n \in 1..(Len(s) - 5) :
        \A k \in 0..2 : s[n + 2 * k] \in WordChars /\ s[n + 2 * k + 1] \in Whitespace

\* re.search(r"\d\s+\d", s)
is_spaced_qty(s) ==
    \E a, b \in DOMAIN s :
        /\ a + 1 < b
        /\ s[a] \in DigitChars /\ s[b] \in DigitChars
        /\ \A k \in (a + 1)..(b - 1) : s[k] \in Whitespace

\* str(row[n]).strip() if len(row) > n and row[n] else ""
KenroCell(row, n) == IF n <= Len(row) THEN Strip(row[n]) ELSE <<>>

KenroNumber(s) == IF is_spaced_qty(s) THEN despace_sku(s) ELSE s

KenroDescription(s) == IF is_spaced(s) THEN despace_and_format_desc(s) ELSE s

\* str.isdigit() of a cell of characters
KenroIsDigit(s) == s # <<>> /\ \A n \in DOMAIN s : s[n] \in DigitChars

\* float(s) is a number; the letters of the price cells of the model
\* spell none.
KenroIsFloat(s) == IsFloatWord(s) /\ \A n \in DOMAIN s : s[n] \in DigitOrPoint

\* The fields of a row after the de-spacing.
KenroFields(row) ==
    [item_code |-> IF is_spaced(KenroCell(row, 1))
                   THEN despace_sku(KenroCell(row, 1)) ELSE KenroCell(row, 1),
     description |-> KenroDescription(KenroCell(row, 2)),
     qty_str |-> KenroNumber(KenroCell(row, 4)),
     price_str |-> KenroNumber(KenroCell(row, 9)),
     backorder_str |-> KenroNumber(KenroCell(row, 10)),
     amount_str |-> KenroNumber(KenroCell(row, 12))]

\* The loop  for offset in [1, 2]  breaks at row j.
KenroBreaks(table, j) ==
    \/ j > Len(table)
    \/ Len(table[j]) <= 1
    \/ KenroCell(table[j], 1) # <<>>
    \/ KenroIsDigit(KenroCell(table[j], 4))

\* The rows after row n whose description continues the one of row n.
KenroContinuation(table, n) ==
    LET one == ~KenroBreaks(table, n + 1)
        two == one /\ ~KenroBreaks(table, n + 2)
    IN  (IF one /\ KenroCell(table[n + 1], 2) # <<>> THEN <<n + 1>> ELSE <<>>)
        \o (IF two /\ KenroCell(table[n + 2], 2) # <<>> THEN <<n + 2>> ELSE <<>>)

\* description += " " + next_desc  for every continuation row
RECURSIVE KenroContinued(_, _, _)
KenroContinued(description, table, rows) ==
    IF rows = <<>> THEN description
    ELSE KenroContinued(
             description \o <<" ">> \o KenroDescription(KenroCell(table[Head(rows)], 2)),
             table, Tail(rows))

\* The record of row n; the prices are kept as their words, 0 for none.
KenroRecord(table, n, pg, tb) ==
    LET f == KenroFields(table[n])
    IN  [quantity |-> IntOfDigits(f.qty_str),
         backorder |-> IF KenroIsDigit(f.backorder_str)
                       THEN IntOfDigits(f.backorder_str) ELSE 0,
         item_number |-> f.item_code,
         sku |-> f.item_code,
         product_description |->
             KenroContinued(f.description, table, KenroContinuation(table, n)),
         unit_price |-> IF f.price_str = <<>> THEN <<"0">> ELSE f.price_str,
         total_amount |-> IF f.amount_str = <<>> THEN <<"0">> ELSE f.amount_str,
         pg |-> pg, tb |-> tb, ln |-> n]

\* "Item Code" in str(row) and "Description" in str(row)
KenroIsHeader(row) ==
    /\ \E n \in DOMAIN row : Contains(row[n], <<"Item Code">>)
    /\ \E n \in DOMAIN row : Contains(row[n], <<"Description">>)

\* The index of the header row among the first five rows; 0 is None.
KenroHeaderRow(table) ==
    LET at == {n \in DOMAIN table : n <= 5 /\ KenroIsHeader(table[n])}
    IN  IF at = {} THEN 0 ELSE CHOOSE n \in at : \A m \in at : n <= m

\* for page in pdf.pages: tables = page.extract_tables()
KenroPage ==
    /\ pc = "page"
    /\ vendor = "kenro"
    /\ IF p > Len(doc)
       THEN pc' = "done" /\ UNCHANGED <<p, table_idx, scanned>>
       ELSE /\ scanned' = scanned \cup {p}
            /\ pc' = "table" /\ table_idx' = 1 /\ p' = p
    /\ UNCHANGED <<callVars, text, ownVars, invoice_format, vendor,
                   include_zero_qty, doc, i, in_items, pending_item_number,
                   items>>

\* One iteration of  for table in tables  up to its loop over the rows.
KenroTable ==
    /\ pc = "table"
    /\ vendor = "kenro"
    /\ IF table_idx > Len(doc[p].tables)
       THEN pc' = "page" /\ p' = p + 1 /\ UNCHANGED <<table_idx, i>>
       ELSE LET table == doc[p].tables[table_idx]
            IN  IF Len(table) < 3 \/ KenroHeaderRow(table) = 0
                THEN table_idx' = table_idx + 1 /\ UNCHANGED <<pc, p, i>>
                ELSE /\ pc' = "row" /\ i' = KenroHeaderRow(table) + 1
                     /\ UNCHANGED <<p, table_idx>>
    /\ UNCHANGED <<callVars, text, ownVars, invoice_format, vendor,
                   include_zero_qty, doc, in_items, pending_item_number,
                   scanned, items>>

\* One iteration of  while i < len(table)  (or its end).
KenroRow ==
    /\ pc = "row"
    /\ vendor = "kenro"
    /\ LET table == doc[p].tables[table_idx]
       IN  IF i > Len(table)
           THEN pc' = "table" /\ table_idx' = table_idx + 1 /\ UNCHANGED <<i, items>>
           ELSE LET row == table[i]
                    f == KenroFields(row)
                    continuation_rows == Len(KenroContinuation(table, i))
                IN  /\ UNCHANGED <<pc, table_idx>>
                    /\ IF Len(row) < 4 \/ ~KenroIsDigit(f.qty_str)
                       THEN i' = i + 1 /\ items' = items
                       ELSE IF IntOfDigits(f.qty_str) = 0 /\ ~include_zero_qty
                       THEN i' = i + 1 + continuation_rows /\ items' = items
                       ELSE IF \E s \in {f.price_str, f.amount_str} :
                                   s # <<>> /\ ~KenroIsFloat(s)
                       THEN i' = i + 1 /\ items' = items
                       ELSE /\ i' = i + 1 + continuation_rows
                            /\ items' =
                                   IF /\ f.item_code # <<>>
                                      /\ KenroRecord(table, i, p, table_idx)
                                             .product_description # <<>>
                                   THEN Append(items,
                                            KenroRecord(table, i, p, table_idx))
                                   ELSE items
    /\ UNCHANGED <<callVars, text, ownVars, invoice_format, vendor,
                   include_zero_qty, doc, p, in_items, pending_item_number,
                   scanned>>

\* The text s as extracted when every character is followed by a space.
RECURSIVE LetterSpaced(_)
LetterSpaced(s) ==
    IF s = <<>> THEN <<>> ELSE <<Head(s), " ">> \o LetterSpaced(Tail(s))

KenroHeader ==
    << <<"Item Code">>, <<"Description">>, <<"Ordered">>, <<"Shipped">>,
       <<>>, <<>>, <<>>, <<>>, <<"Price">>, <<"B/O">>, <<>>, <<"Amount">> >>

KenroDataRow(code, desc, qty, price, backorder) ==
    <<code, desc, <<>>, qty, <<>>, <<>>, <<>>, <<>>, price, backorder, <<>>,
      <<"3">> >>

\* The printed item codes, descriptions and detail lines of the model.
KenroCodes == { <<"E", "B", "1", "2">>, <<"E", "1">> }

KenroPrinted ==
    { <<"E", "s", "t", "e", "r", "b", "r", "o", "o", "k">>,
      <<"B", "l", "u", "e", " ", "p", "e", "n">>,
      <<"P", "e", "n", " ", "5", " ", "x", " ", "7", " ", "i", "n">>,
      <<"R", "e", "d", "/", "B", "l", "u", "e">>,
      <<"I", "n", "k", "P", "e", "n">>,
      <<"N", "i", "b", " ", "F">> }

\* The cells as extracted: as printed, or with a space after every
\* character.
KenroCodeCells == {<<>>} \cup KenroCodes \cup {LetterSpaced(c) : c \in KenroCodes}

KenroDescriptionCells ==
    {<<>>} \cup KenroPrinted \cup {LetterSpaced(d) : d \in KenroPrinted}

KenroQtyCells == { <<"2">>, <<"0">>, <<"1", " ", "0">>, <<"x">>, <<>> }

KenroPriceCells ==
    { <<"1", ".", "5">>, <<"1", " ", "2", " ", ".", " ", "5">>,
      <<"1", " ", ".", " ", "5">>, <<>> }

\* Tables of a header row, one item row and an empty row; tables of an
\* item row followed by up to MaxKenroRows - 1 rows with a description
\* only, or by a second item row; a table without header and a table of
\* two rows.
KenroTables ==
    { <<KenroHeader, KenroDataRow(c, d, q, pr, b), <<>> >> :
          c \in KenroCodeCells, d \in KenroDescriptionCells,
          q \in KenroQtyCells, pr \in KenroPriceCells, b \in {<<>>, <<"2">>} }
    \cup { <<KenroHeader, KenroDataRow(<<"E", "1">>, d, q, <<"1", ".", "5">>, <<>>)>>
           \o [n \in 1..m |-> KenroDataRow(<<>>, e, <<>>, <<>>, <<>>)] :
             d \in KenroDescriptionCells, q \in {<<"2">>, <<"0">>},
             e \in KenroDescriptionCells, m \in 1..(MaxKenroRows - 1) }
    \cup { << <<>>, KenroHeader, KenroDataRow(<<"E", "1">>, d, <<"2">>, <<>>, <<>>),
              KenroDataRow(<<"E", "1">>, e, <<"2">>, <<"x">>, <<>>), <<e>> >> :
             d, e \in KenroDescriptionCells }
    \cup { << KenroDataRow(<<"E", "1">>, <<"N", "i", "b">>, <<"2">>, <<>>, <<>>),
              <<>>, <<>> >>,
           <<KenroHeader, KenroDataRow(<<"E", "1">>, <<"N", "i", "b">>, <<"2">>,
                                      <<>>, <<>>)>> }

\* One page with one table, a page without tables, and two pages.
KenroDocs ==
    { <<TablePage(<<t>>)>> : t \in KenroTables }
    \cup { <<TablePage(<<>>)>>,
           <<TablePage(<<>>),
             TablePage(<< <<KenroHeader,
                            KenroDataRow(<<"E", "1">>, <<"N", "i", "b">>, <<"2">>,
                                         <<>>, <<>>), <<>> >> >>)>> }

InitKenro == ScanInit("kenro", KenroDocs)

NextKenro == KenroPage \/ KenroTable \/ KenroRow

SpecKenro == InitKenro /\ [][NextKenro]_vars

-----------------------------------------------------------------------------
(* ChartpakParser.parse_with_backorders.  The lines are those of           *)
(* ChartpakParser.parse, with the quantities and price groups the method   *)
(* reads:                                                                  *)
(*   f1     matches Format 1: q the shipped quantity, bo the back order    *)
(*          quantity (0 when the group is missing)                         *)
(*   f2     matches Format 2 and not Format 1: bo the back order quantity  *)
(*   bad    the price group of the line that is no float, such as 1.2.3    *)
(*          ("" when all are floats)                                       *)

MaxBackorderLen == 3

BackorderLines ==
    {[k |-> "hdr"], [k |-> "end"], [k |-> "blank"], [k |-> "other"]}
    \cup {[k |-> "f1", q |-> q, bo |-> bo, bad |-> ""] : q \in Quantities, bo \in {0, 3}}
    \cup {[k |-> "f1", q |-> 2, bo |-> 3, bad |-> "list"]}
    \cup {[k |-> "f2", bo |-> bo, bad |-> ""] : bo \in {0, 3}}
    \cup {[k |-> "f2", bo |-> 3, bad |-> g] : g \in {"net", "amount"}}

\* item = {...} of a line matching Format 1.
BackorderItem(line, pg, ln) ==
    [quantity |-> line.q,
     item_number |-> <<Piece(pg, ln, "code")>>,
     sku |-> <<Piece(pg, ln, "code")>>,
     product_description |-> <<Piece(pg, ln, "desc")>>,
     unit_price |-> Piece(pg, ln, "net"),
     total_amount |-> Piece(pg, ln, "amount"),
     retail_price |-> Piece(pg, ln, "list"),
     pg |-> pg, ln |-> ln]

\* backorder_item = item.copy(); backorder_item["backorder_quantity"] = ...
BackorderCopy(item, backorder_qty) ==
    [key \in DOMAIN item \cup {"backorder_quantity"} |->
        IF key = "backorder_quantity" THEN backorder_qty ELSE item[key]]

\* backorder_item = {...} of a line matching Format 2.
BackorderOnly(line, pg, ln) ==
    [quantity |-> 0,
     item_number |-> <<Piece(pg, ln, "code")>>,
     sku |-> <<Piece(pg, ln, "code")>>,
     product_description |-> <<Piece(pg, ln, "desc")>>,
     unit_price |-> Piece(pg, ln, "net"),
     total_amount |-> Piece(0, 0, "0.0"),
     retail_price |-> Piece(pg, ln, "list"),
     backorder_quantity |-> line.bo,
     pg |-> pg, ln |-> ln]

\* for page in pdf.pages: text = page.extract_text(); if not text: continue
BackordersPage ==
    /\ pc = "page"
    /\ vendor = "chartpak"
    /\ IF p > Len(doc)
       THEN pc' = "done" /\ UNCHANGED <<p, i, in_items, scanned>>
       ELSE /\ scanned' = scanned \cup {p}
            /\ IF doc[p].lines = <<>>
               THEN p' = p + 1 /\ UNCHANGED <<pc, i, in_items>>
               ELSE pc' = "line" /\ i' = 1 /\ in_items' = FALSE /\ p' = p
    /\ UNCHANGED <<callVars, text, ownVars, invoice_format, vendor,
                   include_zero_qty, doc, table_idx, pending_item_number, items>>

\* One iteration of  for line in lines  (or its end).
BackordersLine ==
    /\ pc = "line"
    /\ vendor = "chartpak"
    /\ IF i > Len(doc[p].lines)
       THEN pc' = "page" /\ p' = p + 1 /\ UNCHANGED <<i, in_items, backorderVars>>
       ELSE LET line == doc[p].lines[i]
            IN  /\ i' = i + 1
                /\ UNCHANGED <<pc, p>>
                /\ IF line.k = "hdr"
                   THEN in_items' = TRUE /\ UNCHANGED backorderVars
                   ELSE IF line.k = "end"
                   THEN in_items' = FALSE /\ UNCHANGED backorderVars
                   ELSE /\ in_items' = in_items
                        /\ IF in_items /\ line.k = "f1" /\ line.bad = ""
                           THEN /\ regular_items' =
                                     IF line.q > 0
                                     THEN Append(regular_items, BackorderItem(line, p, i))
                                     ELSE regular_items
                                /\ backorder_items' =
                                     IF line.bo > 0
                                     THEN Append(backorder_items,
                                              BackorderCopy(BackorderItem(line, p, i), line.bo))
                                     ELSE backorder_items
                           ELSE IF in_items /\ line.k = "f2" /\ line.bad \notin {"net", "list"}
                           THEN /\ backorder_items' =
                                     Append(backorder_items, BackorderOnly(line, p, i))
                                /\ regular_items' = regular_items
                           ELSE UNCHANGED backorderVars
    /\ UNCHANGED <<callVars, text, cleaned, mainVars, registry,
                   invoice_format, vendor, include_zero_qty, doc, table_idx,
                   pending_item_number, scanned, items>>

InitBackorders == ScanInit("chartpak", TextDocs(BackorderLines, MaxBackorderLen))

NextBackorders == BackordersPage \/ BackordersLine

SpecBackorders == InitBackorders /\ [][NextBackorders]_vars

-----------------------------------------------------------------------------
(* main: the command line run  parse.py <pdf_path> <output_json>  with two *)
(* arguments.  pdf_file is what is found at pdf_path:                      *)
(*   missing   no file                                                     *)
(*   denied    a file the process may not read                             *)
(*   damaged   a readable file that is no PDF document                     *)
(*   pdf       a PDF document, with the pages doc and the first page's     *)
(*             text                                                        *)
(* An exception is the name of its class ("" is no exception).  output is  *)
(* <<>> or the one object written to output_path.                          *)

MaxMainPhrases == 1

PdfFiles == {"missing", "denied", "damaged", "pdf"}

\* The classes an exception of the class belongs to.
ExceptionBases(e) ==
    CASE e = "FileNotFoundError" -> {"FileNotFoundError", "OSError"}
      [] e = "PermissionError" -> {"PermissionError", "OSError"}
      [] e = "OverflowError" -> {"OverflowError", "ArithmeticError"}
      [] OTHER -> {e}

\* except (...) as e  catches the exception.
Caught(e, classes) == ExceptionBases(e) \cap classes # {}

\* except (OSError, ValueError, KeyError, AttributeError) as e
DetectionCaught == {"OSError", "ValueError", "KeyError", "AttributeError"}

\* except (FileNotFoundError, OSError, ValueError, KeyError) as e
MainCaught == {"FileNotFoundError", "OSError", "ValueError", "KeyError"}

\* What  pdfplumber.open(pdf_path)  raises: the error of the operating
\* system for a file that is missing or may not be read, the error of the
\* PDF reader (a class of its own, derived from Exception) for a file that
\* is no PDF document.
OpenRaises(file) ==
    CASE file = "missing" -> "FileNotFoundError"
      [] file = "denied" -> "PermissionError"
      [] file = "damaged" -> "PDFSyntaxError"
      [] OTHER -> ""

\* What reading the first page may raise while the vendor is detected.
DetectionErrors == {"", "OSError", "ValueError", "KeyError", "AttributeError"}

\* A record returned by the scanner of vendor v or by the generic parser.
\* Prices are in hundredths; <<>> is None.
MainItem(v, n) ==
    [quantity |-> n,
     item_number |-> "A" \o ToString(n),
     sku |-> "A" \o ToString(n),
     product_description |-> v,
     unit_price |-> <<125 * n>>,
     total_amount |-> IF n = 1 THEN <<>> ELSE <<125 * n * n>>]

\* f"{x:.2f}" of a price given in hundredths.
TwoDecimals(h) ==
    ToString(h \div 100) \o "." \o ToString((h % 100) \div 10) \o ToString(h % 10)

TableHeaders ==
    <<"Quantity", "Backorder", "Item Number", "SKU", "Description",
      "Unit Price", "Total">>

\* The row of an item in convert_to_table_format; the records of the
\* model have no key "backorder".
TableRow(item) ==
    <<ToString(item.quantity), "", item.item_number, item.sku,
      item.product_description,
      IF item.unit_price # <<>> THEN TwoDecimals(item.unit_price[1]) ELSE "",
      IF item.total_amount # <<>> THEN TwoDecimals(item.total_amount[1]) ELSE "">>

\* convert_to_table_format(line_items)
convert_to_table_format(line_items) ==
    IF line_items = <<>>
    THEN <<>>
    ELSE <<TableHeaders>> \o [n \in DOMAIN line_items |-> TableRow(line_items[n])]

\* What parse_with_custom_parser may return for the document: nothing
\* without pages or without a registered vendor, else what the vendor's
\* scanner returns.
MainCustomResults ==
    IF doc # <<>> /\ detect_vendor(text) \in CUSTOM_PARSERS
    THEN {<<>>, <<MainItem(detect_vendor(text), 1)>>,
          <<MainItem(detect_vendor(text), 1), MainItem(detect_vendor(text), 2)>>}
    ELSE {<<>>}

\* Mutant of MainGenericOutcomes: finding nothing is an error.
MainGenericOutcomes_strict ==
    {[raised |-> "", returned |-> <<MainItem("generic", 1)>>],
     [raised |-> "ValueError", returned |-> <<>>],
     [raised |-> "OverflowError", returned |-> <<>>]}

\* What _extract_table_based may return, and what it may raise (the
\* OverflowError of a quantity cell 'inf').
MainGenericOutcomes ==
    {[raised |-> "", returned |-> its] : its \in {<<>>, <<MainItem("generic", 1)>>}}
    \cup {[raised |-> "OverflowError", returned |-> <<>>]}

\* The outcomes of  InvoiceParser(pdf_path).extract_line_items().
ExtractOutcomes ==
    IF pdf_file = "missing"
    THEN {[raised |-> "FileNotFoundError", returned |-> <<>>]}
    ELSE IF OpenRaises(pdf_file) # ""
    THEN {[raised |-> OpenRaises(pdf_file), returned |-> <<>>]}
    ELSE UNION { IF ReturnsCustom(custom)
                 THEN {[raised |-> "", returned |-> custom]}
                 ELSE MainGenericOutcomes : custom \in MainCustomResults }

\* The result object of a run that parsed the document.
SuccessResult(v, line_items) ==
    [success |-> TRUE,
     vendor |-> v,
     table |-> convert_to_table_format(line_items),
     raw_items |-> line_items,
     item_count |-> Len(line_items)]

\* The error object of the handler of main.
ErrorResult(e) == [success |-> FALSE, error |-> e, error_type |-> e]

\* An exception leaves the try block of main: the handler writes the
\* error object and exits with code 1; an exception it does not catch
\* ends the process with code 1 and nothing written.
MainRaise(e) ==
    /\ error' = e
    /\ exit_code' = 1
    /\ pc' = "done"
    /\ output' = IF Caught(e, MainCaught) THEN <<ErrorResult(e)>> ELSE output

\* vendor = "generic"; try: the first page is read and detect_vendor
\* called; except: the warning.
MainDetect ==
    /\ pc = "main"
    /\ \E e \in (IF OpenRaises(pdf_file) # "" THEN {OpenRaises(pdf_file)}
                 ELSE IF doc = <<>> THEN {""} ELSE DetectionErrors) :
          IF e # "" /\ ~Caught(e, DetectionCaught)
          THEN MainRaise(e) /\ vendor' = "generic"
          ELSE /\ vendor' = IF e = "" /\ doc # <<>> /\ detect_vendor(text) # ""
                            THEN detect_vendor(text)
                            ELSE "generic"
               /\ pc' = "parse"
               /\ error' = e
               /\ UNCHANGED <<output, exit_code>>
    /\ UNCHANGED <<text, cleaned, backorderVars, pdf_file, registry,
                   invoice_format, scanVars, callVars>>

\* parser = InvoiceParser(pdf_path); line_items = parser.extract_line_items();
\* the result object is written; or the handler.
MainParse ==
    /\ pc = "parse"
    /\ \E out \in ExtractOutcomes :
          IF out.raised # ""
          THEN MainRaise(out.raised) /\ items' = items
          ELSE /\ items' = out.returned
               /\ output' = <<SuccessResult(vendor, out.returned)>>
               /\ exit_code' = 0
               /\ pc' = "done"
               /\ error' = error
    /\ UNCHANGED <<text, vendor, cleaned, backorderVars, pdf_file, registry,
                   invoice_format, doc, include_zero_qty, p, i, in_items,
                   table_idx, pending_item_number, scanned, callVars>>

InitMain ==
    /\ pdf_file \in PdfFiles
    /\ IF pdf_file = "pdf"
       THEN \/ doc = <<>> /\ text = {}
            \/ /\ doc = <<[lines |-> <<>>, tables |-> <<>>]>>
               /\ text \in SubsetsUpTo(Phrases, MaxMainPhrases)
       ELSE doc = <<>> /\ text = {}
    /\ vendor = ""
    /\ include_zero_qty = TRUE
    /\ pc = "main"
    /\ p = 1
    /\ i = 0
    /\ in_items = FALSE
    /\ table_idx = 0
    /\ pending_item_number = <<>>
    /\ scanned = {}
    /\ items = <<>>
    /\ calls = <<>>
    /\ custom_items = <<>>
    /\ queue = <<>>
    /\ results = <<>>
    /\ last_header = <<>>
    /\ invoice_format = ""
    /\ cleaned = <<>>
    /\ regular_items = <<>>
    /\ backorder_items = <<>>
    /\ output = <<>>
    /\ exit_code = -1
    /\ error = ""
    /\ registry = Registry

NextMain == MainDetect \/ MainParse

SpecMain == InitMain /\ [][NextMain]_vars

-----------------------------------------------------------------------------
(* Pages without text or without tables: the scanners of lines and of      *)
(* tables and the generic parser on documents of up to MaxRecoveryLen      *)
(* lines, rows and breaks.                                                 *)

MaxRecoveryLen == 4

InitRecovery ==
    \/ InitScanners
    \/ ScanInit("luxury_brands", TextDocs(LuxuryAgainLines, MaxRecoveryLen))
    \/ ScanInit("", TableDocs(GenericRows, MaxRecoveryLen))

NextRecovery == NextScanners \/ NextGeneric

SpecRecovery == InitRecovery /\ [][NextRecovery]_vars

----------------------------------------------------------------------------
(* ItoyaParser.parse.  A line is described by what the scanner tests:      *)
(*   k      hdr    contains Item Description UOM                           *)
(*          blank  line.strip() is empty                                   *)
(*          data   matches the item pattern; q is the shipped group,       *)
(*                 price and amount the two money groups as printed        *)
(*          id     starts with digits or dashes and white space without    *)
(*                 matching the item pattern                               *)
(*          text   any other line                                          *)
(*   end    contains Subtotal, Total, Page: or Net Invoice                 *)
(*   open   the stripped line starts with "("                              *)
(*   close  the stripped line ends with ")"                                *)

MaxItoyaLen == 4

ItoyaLine0(k, end, open, close) ==
    [k |-> k, end |-> end, open |-> open, close |-> close]

ItoyaData(q, end) ==
    [k |-> "data", end |-> end, open |-> FALSE, close |-> FALSE, q |-> q,
     price |-> IF q = 0 THEN "5.00" ELSE "1,680.00",
     amount |-> IF q = 0 THEN "0.00" ELSE "3,360.00"]

ItoyaLines ==
    {ItoyaLine0("hdr", FALSE, FALSE, FALSE), ItoyaLine0("blank", FALSE, FALSE, FALSE),
     ItoyaLine0("id", FALSE, FALSE, FALSE),
     ItoyaLine0("text", FALSE, FALSE, FALSE), ItoyaLine0("text", FALSE, TRUE, FALSE),
     ItoyaLine0("text", FALSE, FALSE, TRUE), ItoyaLine0("text", TRUE, FALSE, FALSE),
     ItoyaData(0, FALSE), ItoyaData(2, FALSE), ItoyaData(2, TRUE)}

\* float(price.replace(",", "")) of a group matching [\d,]+\.\d{2}, in
\* hundredths.
FloatOfMoney(w) ==
    LET u == Unmarked(w)
    IN  100 * NatOf(SubSeq(u, 1, Len(u) - 3)) + NatOf(SubSeq(u, Len(u) - 1, Len(u)))

\* the end sentinel: "Subtotal" in line or "Total" in line or ...
ItoyaEnds(line) == line.end

\* next_line and not re.match(r"^[\d\-]+\s+", next_line)
ItoyaContinues(line) == line.k \in {"hdr", "text"}

\* Mutant of ItoyaTaken: no line after the item line is looked at.
ItoyaTaken_none(lines, ln) == 0

\* The number of lines after the item line ln that are taken into its
\* description (0, 1 or 2).
ItoyaTaken(lines, ln) ==
    IF ln + 1 <= Len(lines) /\ ItoyaContinues(lines[ln + 1])
    THEN IF /\ ln + 2 <= Len(lines)
            /\ ItoyaContinues(lines[ln + 2])
            /\ (lines[ln + 2].open \/ ~lines[ln + 1].close)
         THEN 2
         ELSE 1
    ELSE 0

\* The record of the item line ln of page pg with n description lines
\* after it.
ItoyaRecord(line, pg, ln, n) ==
    [quantity |-> line.q,
     item_number |-> <<Piece(pg, ln, "code")>>,
     sku |-> <<Piece(pg, ln, "code")>>,
     product_description |->
         <<Piece(pg, ln, "desc")>> \o [m \in 1..n |-> Piece(pg, ln + m, "line")],
     unit_price |-> FloatOfMoney(line.price),
     total_amount |-> FloatOfMoney(line.amount),
     pg |-> pg, ln |-> ln]

\* Mutant of ItoyaPage: the flag is kept from page to page.
ItoyaPage_kept ==
    /\ pc = "page"
    /\ vendor = "itoya"
    /\ IF p > Len(doc)
       THEN pc' = "done" /\ UNCHANGED <<p, i, in_items, scanned>>
       ELSE /\ scanned' = scanned \cup {p}
            /\ IF doc[p].lines = <<>>
               THEN p' = p + 1 /\ UNCHANGED <<pc, i, in_items>>
               ELSE pc' = "line" /\ i' = 1 /\ in_items' = in_items /\ p' = p
    /\ UNCHANGED <<callVars, text, ownVars, invoice_format, vendor,
                   include_zero_qty, doc, table_idx, pending_item_number, items>>

\* for page in pdf.pages: ... in_items_section = False; i = 0
ItoyaPage ==
    /\ pc = "page"
    /\ vendor = "itoya"
    /\ IF p > Len(doc)
       THEN pc' = "done" /\ UNCHANGED <<p, i, in_items, scanned>>
       ELSE /\ scanned' = scanned \cup {p}
            /\ IF doc[p].lines = <<>>
               THEN p' = p + 1 /\ UNCHANGED <<pc, i, in_items>>
               ELSE pc' = "line" /\ i' = 1 /\ in_items' = FALSE /\ p' = p
    /\ UNCHANGED <<callVars, text, ownVars, invoice_format, vendor,
                   include_zero_qty, doc, table_idx, pending_item_number, items>>

\* One iteration of  while i < len(lines)  (or its end), with the look at
\* the two lines after an item line.
ItoyaLine ==
    /\ pc = "line"
    /\ vendor = "itoya"
    /\ IF i > Len(doc[p].lines)
       THEN pc' = "page" /\ p' = p + 1 /\ UNCHANGED <<i, in_items, items>>
       ELSE LET lines == doc[p].lines
                line == lines[i]
            IN  IF line.k = "hdr"
                THEN in_items' = TRUE /\ i' = i + 1 /\ UNCHANGED <<pc, p, items>>
                ELSE IF in_items /\ ItoyaEnds(line)
                THEN pc' = "page" /\ p' = p + 1 /\ UNCHANGED <<i, in_items, items>>
                ELSE IF in_items /\ line.k = "data"
                THEN /\ i' = i + ItoyaTaken(lines, i) + 1
                     /\ items' =
                          IF line.q > 0 \/ include_zero_qty
                          THEN Append(items,
                                   ItoyaRecord(line, p, i, ItoyaTaken(lines, i)))
                          ELSE items
                     /\ UNCHANGED <<pc, p, in_items>>
                ELSE i' = i + 1 /\ UNCHANGED <<pc, p, in_items, items>>
    /\ UNCHANGED <<callVars, text, ownVars, invoice_format, vendor,
                   include_zero_qty, doc, table_idx, pending_item_number,
                   scanned>>

InitItoya == ScanInit("itoya", TextDocs(ItoyaLines, MaxItoyaLen))

NextItoya == ItoyaPage \/ ItoyaLine

SpecItoya == InitItoya /\ [][NextItoya]_vars

----------------------------------------------------------------------------
(* UniBallParser.parse.  Classes of the stripped line:                     *)
(*   hdr   starts with Line Product ID and contains Description and        *)
(*         Quantity                                                        *)
(*   data  matches the data pattern; q is the quantity group and price     *)
(*         the text of the two amount groups [\d,.]+                       *)
(*   skip  empty, or starts with two numbers without matching the data     *)
(*         pattern                                                         *)
(*   text  any other line (Customer Part ID, a description detail)         *)

MaxUniBallLen == 6

UniBallLines ==
    {[k |-> "hdr"], [k |-> "skip"], [k |-> "text"],
     [k |-> "data", q |-> 0, price |-> "4.25"],
     [k |-> "data", q |-> 2, price |-> "1,074.25"],
     [k |-> "data", q |-> 2, price |-> "1.2.3"]}

\* "Line Product ID" in line and "Description" in line and "Quantity" in line
UniBallHeader(line) == line.k = "hdr"

\* next_line and not next_line.startswith("Line Product ID")
\*           and not re.match(r"^\d+\s+\d+\s+", next_line)
UniBallContinuation(lines, j) ==
    IF j <= Len(lines) /\ lines[j].k = "text" THEN <<j>> ELSE <<>>

\* The record of the data line ln of page pg.
UniBallRecord(line, pg, ln, cont) ==
    [quantity |-> line.q,
     item_number |-> <<Piece(pg, ln, "id")>>,
     sku |-> <<Piece(pg, ln, "id")>>,
     product_description |->
         <<Piece(pg, ln, "desc")>> \o [m \in DOMAIN cont |-> Piece(pg, cont[m], "line")],
     unit_price |-> Unmarked(line.price),
     total_amount |-> Unmarked(line.price),
     pg |-> pg, ln |-> ln]

\* for page in pdf.pages: ... i = 0
UniBallPage ==
    /\ pc = "page"
    /\ vendor = "uniball"
    /\ IF p > Len(doc)
       THEN pc' = "done" /\ UNCHANGED <<p, i, scanned>>
       ELSE /\ scanned' = scanned \cup {p}
            /\ IF doc[p].lines = <<>>
               THEN p' = p + 1 /\ UNCHANGED <<pc, i>>
               ELSE pc' = "line" /\ i' = 1 /\ p' = p
    /\ UNCHANGED <<callVars, text, ownVars, invoice_format, vendor,
                   include_zero_qty, doc, in_items, table_idx,
                   pending_item_number, items>>

\* A variant that leaves the cursor on the header line.
UniBallAfter_header(lines, d) == d - 2

\* Where an iteration that matched the data line d leaves the cursor:
\* i += 1 before the continuation is looked at, i += 1 at the end of the
\* iteration (or before continue).
UniBallAfter(lines, d) == d + 2

\* One iteration of  while i < len(lines)  (or its end).
UniBallLine ==
    /\ pc = "line"
    /\ vendor = "uniball"
    /\ IF i > Len(doc[p].lines)
       THEN pc' = "page" /\ p' = p + 1 /\ UNCHANGED <<i, items>>
       ELSE LET lines == doc[p].lines
            IN  IF ~UniBallHeader(lines[i])
                THEN i' = i + 1 /\ UNCHANGED <<pc, p, items>>
                ELSE IF i + 2 > Len(lines)
                THEN pc' = "page" /\ p' = p + 1 /\ UNCHANGED <<i, items>>
                ELSE IF lines[i + 2].k # "data"
                THEN i' = i + 3 /\ UNCHANGED <<pc, p, items>>
                ELSE /\ i' = UniBallAfter(lines, i + 2)
                     /\ items' =
                          IF \/ lines[i + 2].q = 0 /\ ~include_zero_qty
                             \/ ~IsFloat(Unmarked(lines[i + 2].price))
                          THEN items
                          ELSE Append(items,
                                   UniBallRecord(lines[i + 2], p, i + 2,
                                       UniBallContinuation(lines, i + 3)))
                     /\ UNCHANGED <<pc, p>>
    /\ UNCHANGED <<callVars, text, ownVars, invoice_format, vendor,
                   include_zero_qty, doc, in_items, table_idx,
                   pending_item_number, scanned>>

UniBallDocs(len) == TextDocs(UniBallLines, len)

InitUniBall == ScanInit("uniball", UniBallDocs(MaxUniBallLen))

NextUniBall == UniBallPage \/ UniBallLine

SpecUniBall == InitUniBall /\ [][NextUniBall]_vars

----------------------------------------------------------------------------
(* JPTParser.parse and JPTParser._parse_line.  Classes of the line:        *)
(*   hdr    contains Ship Item# and B/O                                    *)
(*   end    contains Subtotal, TOTAL or Total:, or starts with Page        *)
(*   blank  line.strip() is empty                                          *)
(*   line   any other line; parts is line.split(), a sequence of words     *)

MaxJPTLen == 4

\* The words of the item lines: [SHIP] ITEM# UPC SKU [P65] DESC... [B/O]
\* PRICE AMOUNT.
JPTWords ==
    {<<>>, <<"Blue">>, <<"Blue", "Fountain">>, <<"Blue", "Fountain", "Pen">>}

JPTMoney == {<<"1.00", "5.00">>, <<"1,680.00", "3,360.00">>}

JPTParts ==
    {ship \o <<item, "0123", "S1">> \o p65 \o words \o bo \o money :
        ship \in {<<>>, <<"5">>}, item \in {"JP100", "20456"},
        p65 \in {<<>>, <<"Y">>}, words \in JPTWords,
        bo \in {<<>>, <<"2">>, <<"0">>}, money \in JPTMoney}

JPTItemLine(parts) == [k |-> "line", parts |-> parts]

JPTLines ==
    {[k |-> "hdr"], [k |-> "end"], [k |-> "blank"],
     JPTItemLine(<<"5", "JP100", "0123", "S1", "Blue", "Pen", "2", "1.00", "5.00">>),
     JPTItemLine(<<"5", "JP100", "0123", "S1", "Blue", "Fountain", "Pen", "1.00", "5.00">>),
     JPTItemLine(<<"JP100", "0123", "S1", "Blue", "Pen", "2", "1.00", "5.00">>)}

\* The documents: the short lines in any order, and one page holding the
\* header and one item line.
JPTDocs(len) ==
    TextDocs(JPTLines, len)
    \cup {<<[lines |-> <<[k |-> "hdr"], JPTItemLine(parts)>>, tables |-> <<>>]>> :
             parts \in JPTParts}

\* parts[0].isdigit()
IsDigits(w) == w # "" /\ \A n \in 1..Len(w) : Char(w, n) \in DecimalDigits

\* int(bo_str) succeeds
IsInteger(w) == IsDigits(Unsigned(w))

\* int(bo_str)
IntegerOf(w) == IF Char(w, 1) = "-" THEN 0 - NatOf(Unsigned(w)) ELSE NatOf(Unsigned(w))

\* The record of the words kept, with the description between the
\* 0-based positions from (inclusive) and to (exclusive).
JPTRecord(parts, kept, shipped, from, to) ==
    [quantity |-> IF shipped THEN NatOf(kept[1]) ELSE 0,
     item_number |-> IF shipped THEN kept[2] ELSE kept[1],
     sku |-> IF shipped THEN kept[4] ELSE kept[3],
     product_description |-> IF from < to THEN SubSeq(kept, from + 1, to) ELSE <<>>,
     unit_price |-> FloatOfMoney(parts[Len(parts) - 1]),
     total_amount |-> FloatOfMoney(parts[Len(parts)])]

\* desc_start_idx, after the P65 flag
JPTDescStart(kept, shipped) ==
    LET from == IF shipped THEN 4 ELSE 3
    IN  IF from < Len(kept) /\ kept[from + 1] \in {"Y", "N"} THEN from + 1 ELSE from

\* desc_end_idx: len(parts) - 3 when bo_qty > 0, len(parts) - 2 otherwise,
\* of the parts as they are after  parts = parts[:-2]
JPTDescEnd(parts, kept) ==
    IF kept = parts /\ IntegerOf(parts[Len(parts) - 2]) > 0
    THEN Len(kept) - 3
    ELSE Len(kept) - 2

\* The words that are left when the third word from the end is no integer.
JPTKept(parts) ==
    IF IsInteger(parts[Len(parts) - 2]) THEN parts ELSE SubSeq(parts, 1, Len(parts) - 2)

\* first_val: 0 < int(parts[0]) < 1000
JPTShipped(kept) == IsDigits(kept[1]) /\ NatOf(kept[1]) > 0 /\ NatOf(kept[1]) < 1000

\* JPTParser._parse_line(line): <<>> is None.
JPTParseLine(parts) ==
    IF Len(parts) < 4
    THEN <<>>
    ELSE IF ~IsFloat(parts[Len(parts)]) \/ ~IsFloat(parts[Len(parts) - 1])
    THEN <<>>
    ELSE IF Len(JPTKept(parts)) < (IF JPTShipped(JPTKept(parts)) THEN 4 ELSE 3)
    THEN <<>>
    ELSE <<JPTRecord(parts, JPTKept(parts), JPTShipped(JPTKept(parts)),
                     JPTDescStart(JPTKept(parts), JPTShipped(JPTKept(parts))),
                     JPTDescEnd(parts, JPTKept(parts)))>>

\* for page in pdf.pages: ... in_items = False
JPTPage ==
    /\ pc = "page"
    /\ vendor = "jpt"
    /\ IF p > Len(doc)
       THEN pc' = "done" /\ UNCHANGED <<p, i, in_items, scanned>>
       ELSE /\ scanned' = scanned \cup {p}
            /\ IF doc[p].lines = <<>>
               THEN p' = p + 1 /\ UNCHANGED <<pc, i, in_items>>
               ELSE pc' = "line" /\ i' = 1 /\ in_items' = FALSE /\ p' = p
    /\ UNCHANGED <<callVars, text, ownVars, invoice_format, vendor,
                   include_zero_qty, doc, table_idx, pending_item_number, items>>

\* One iteration of  for i, line in enumerate(lines)  (or its end).
JPTLine ==
    /\ pc = "line"
    /\ vendor = "jpt"
    /\ IF i > Len(doc[p].lines)
       THEN pc' = "page" /\ p' = p + 1 /\ UNCHANGED <<i, in_items, items>>
       ELSE LET line == doc[p].lines[i]
            IN  /\ i' = i + 1
                /\ UNCHANGED <<pc, p>>
                /\ IF line.k = "hdr"
                   THEN in_items' = TRUE /\ items' = items
                   ELSE IF in_items /\ line.k = "end"
                   THEN in_items' = FALSE /\ items' = items
                   ELSE /\ in_items' = in_items
                        /\ items' =
                             IF in_items /\ line.k = "line"
                             THEN IF \/ JPTParseLine(line.parts) = <<>>
                                     \/ /\ JPTParseLine(line.parts)[1].quantity = 0
                                        /\ ~include_zero_qty
                                  THEN items
                                  ELSE items \o JPTParseLine(line.parts)
                             ELSE items
    /\ UNCHANGED <<callVars, text, ownVars, invoice_format, vendor,
                   include_zero_qty, doc, table_idx, pending_item_number,
                   scanned>>

InitJPT == ScanInit("jpt", JPTDocs(MaxJPTLen))

NextJPT == JPTPage \/ JPTLine

SpecJPT == InitJPT /\ [][NextJPT]_vars

----------------------------------------------------------------------------
(* AmeicoParser.parse.  Classes of the line:                               *)
(*   hdr    contains Item, Description and Ordered                         *)
(*   stop   contains Subtotal or Tax Total                                 *)
(*   item   matches the item pattern (amounts written with $); q is the    *)
(*          quantity group, dash says the code ends with a hyphen, ok      *)
(*          that the two amounts are numbers once the commas are removed   *)
(*   loose  matches the pattern that ends a description (amounts with or   *)
(*          without $) without matching the item pattern                   *)
(*   blank  line.strip() is empty                                          *)
(*   text   any other line; s says it looks like the suffix of a code      *)
(*          (at most two words, under 20 characters, not starting with     *)
(*          Karst, Toyo, The or with)                                      *)

MaxAmeicoLen == 4

AmeicoItem(q, dash, ok) == [k |-> "item", q |-> q, dash |-> dash, ok |-> ok]

AmeicoLines ==
    {[k |-> "hdr"], [k |-> "stop"], [k |-> "blank"], [k |-> "loose"],
     [k |-> "text", s |-> TRUE], [k |-> "text", s |-> FALSE],
     AmeicoItem(2, FALSE, TRUE), AmeicoItem(0, FALSE, TRUE),
     AmeicoItem(2, TRUE, TRUE), AmeicoItem(2, FALSE, FALSE)}

\* next_match: the line starts a new item
AmeicoNextMatch(line) == line.k \in {"item", "loose"}

\* if next_line: continuation_lines.append(next_line)
AmeicoContinues(line) == line.k \in {"hdr", "text"}

\* The item line whose description is being read when the cursor is at j:
\* the last line before j that starts an item.
AmeicoMatched(lines, j) ==
    CHOOSE m \in 1..(j - 1) :
        /\ AmeicoNextMatch(lines[m])
        /\ \A n \in (m + 1)..(j - 1) : ~AmeicoNextMatch(lines[n])

\* continuation_lines of the item line m when the inner loop was left at j
AmeicoContinuation(lines, m, j) ==
    SelectSeq([n \in 1..(j - 1 - m) |-> m + n], LAMBDA n : AmeicoContinues(lines[n]))

\* The last continuation line completes a code that ends with a hyphen.
AmeicoSuffixed(lines, m, cont) ==
    /\ lines[m].dash
    /\ cont # <<>>
    /\ lines[cont[Len(cont)]].k = "text"
    /\ lines[cont[Len(cont)]].s

\* The record of the item line m of page pg with continuation lines cont.
AmeicoRecord(lines, pg, m, cont, suffixed) ==
    LET code == <<Piece(pg, m, "code")>>
                \o (IF suffixed THEN <<Piece(pg, cont[Len(cont)], "line")>> ELSE <<>>)
        kept == IF suffixed THEN SubSeq(cont, 1, Len(cont) - 1) ELSE cont
    IN  [quantity |-> lines[m].q,
         item_number |-> code,
         sku |-> code,
         product_description |->
             <<Piece(pg, m, "desc")>> \o [n \in DOMAIN kept |-> Piece(pg, kept[n], "line")],
         pg |-> pg, ln |-> m]

\* for page in pdf.pages: ... in_items = False; i = 0
AmeicoPage ==
    /\ pc = "page"
    /\ vendor = "ameico"
    /\ IF p > Len(doc)
       THEN pc' = "done" /\ UNCHANGED <<p, i, in_items, scanned>>
       ELSE /\ scanned' = scanned \cup {p}
            /\ IF doc[p].lines = <<>>
               THEN p' = p + 1 /\ UNCHANGED <<pc, i, in_items>>
               ELSE pc' = "line" /\ i' = 1 /\ in_items' = FALSE /\ p' = p
    /\ UNCHANGED <<callVars, text, ownVars, invoice_format, vendor,
                   include_zero_qty, doc, table_idx, pending_item_number, items>>

\* One iteration of the outer  while i < len(lines)  (or its end), up to
\* the inner loop it enters after an item line.
AmeicoLine ==
    /\ pc = "line"
    /\ vendor = "ameico"
    /\ IF i > Len(doc[p].lines)
       THEN pc' = "page" /\ p' = p + 1 /\ UNCHANGED <<i, in_items>>
       ELSE LET line == doc[p].lines[i]
            IN  IF line.k = "hdr"
                THEN in_items' = TRUE /\ i' = i + 1 /\ UNCHANGED <<pc, p>>
                ELSE IF in_items /\ line.k = "stop"
                THEN pc' = "page" /\ p' = p + 1 /\ UNCHANGED <<i, in_items>>
                ELSE /\ i' = i + 1
                     /\ pc' = IF in_items /\ line.k = "item"
                              THEN IF line.q = 0 /\ ~include_zero_qty
                                   THEN "skip"
                                   ELSE "collect"
                              ELSE pc
                     /\ UNCHANGED <<p, in_items>>
    /\ UNCHANGED <<callVars, text, ownVars, invoice_format, vendor,
                   include_zero_qty, doc, table_idx, pending_item_number,
                   scanned, items>>

\* One iteration of the loop that skips the lines after a zero-quantity
\* item line (or its end, and the continue of the outer loop).
AmeicoSkip ==
    /\ pc = "skip"
    /\ vendor = "ameico"
    /\ IF i > Len(doc[p].lines) \/ AmeicoNextMatch(doc[p].lines[i])
       THEN pc' = "line" /\ i' = i
       ELSE pc' = pc /\ i' = i + 1
    /\ UNCHANGED <<callVars, text, ownVars, invoice_format, vendor,
                   include_zero_qty, doc, p, in_items, table_idx,
                   pending_item_number, scanned, items>>

\* One iteration of the loop that collects the description (or its end:
\* the record is appended and the outer loop continues, or the amounts
\* are no numbers and the outer iteration ends with  i += 1).
AmeicoCollect ==
    /\ pc = "collect"
    /\ vendor = "ameico"
    /\ IF \/ i > Len(doc[p].lines)
          \/ AmeicoNextMatch(doc[p].lines[i])
          \/ doc[p].lines[i].k = "stop"
       THEN LET lines == doc[p].lines
                m == AmeicoMatched(lines, i)
            IN  /\ pc' = "line"
                /\ IF lines[m].ok
                   THEN /\ items' = Append(items,
                                AmeicoRecord(lines, p, m, AmeicoContinuation(lines, m, i),
                                    AmeicoSuffixed(lines, m, AmeicoContinuation(lines, m, i))))
                        /\ i' = i
                   ELSE items' = items /\ i' = i + 1
       ELSE pc' = pc /\ i' = i + 1 /\ items' = items
    /\ UNCHANGED <<callVars, text, ownVars, invoice_format, vendor,
                   include_zero_qty, doc, p, in_items, table_idx,
                   pending_item_number, scanned>>

AmeicoDocs(len) == TextDocs(AmeicoLines, len)

InitAmeico == ScanInit("ameico", AmeicoDocs(MaxAmeicoLen))

NextAmeico == AmeicoPage \/ AmeicoLine \/ AmeicoSkip \/ AmeicoCollect

SpecAmeico == InitAmeico /\ [][NextAmeico]_vars

----------------------------------------------------------------------------
(* The same document parsed twice by one scanner: parse(pdf_path, True)    *)
(* and then parse(pdf_path, False).                                        *)

MaxGateLen == 4

\* parser_class.parse(pdf_path, include_zero_qty) is called again, with
\* the switch off, once the first call has returned.
GateEnter ==
    /\ pc = "done"
    /\ include_zero_qty
    /\ results' = Append(results, [doc |-> doc, items |-> items])
    /\ include_zero_qty' = FALSE
    /\ items' = <<>>
    /\ pc' = "page"
    /\ p' = 1
    /\ scanned' = {}
    /\ UNCHANGED <<text, ownVars, invoice_format, vendor, doc, i, in_items,
                   table_idx, calls, custom_items, queue, last_header,
                   pending_item_number>>

InitGate ==
    /\ \/ ScanInit("ameico", AmeicoDocs(MaxGateLen))
       \/ ScanInit("toms_studio", TomsDocs)
       \/ ScanInit("itoya", TextDocs(ItoyaLines, MaxGateLen - 1))
       \/ ScanInit("uniball", UniBallDocs(MaxGateLen))
    /\ include_zero_qty

NextGate == NextAmeico \/ NextToms \/ NextItoya \/ NextUniBall \/ GateEnter

SpecGate == InitGate /\ [][NextGate]_vars

----------------------------------------------------------------------------
(* Retro51Parser.parse and TWSBIParser.parse: the same loop, each with its *)
(* own header words, end words and item pattern.  Classes of the line:     *)
(*   hdr    contains ITEM, DESCRIPTION and QTY (Retro 51); SKU, ACTIVITY   *)
(*          and QTY (TWSBI)                                                *)
(*   stop   contains SUBTOTAL or SUB TOTAL (Retro 51); SUBTOTAL or BALANCE *)
(*          (TWSBI)                                                        *)
(*   item   matches the item pattern; q is the quantity group and ok says  *)
(*          that the rate and the amount are numbers                       *)
(*   text   any other line                                                 *)

Retro51Lines ==
    {[k |-> "hdr"], [k |-> "stop"], [k |-> "text"],
     [k |-> "item", q |-> 0, ok |-> TRUE], [k |-> "item", q |-> 2, ok |-> TRUE],
     [k |-> "item", q |-> 2, ok |-> FALSE]}

Retro51Record(line, pg, ln) ==
    [quantity |-> line.q,
     item_number |-> <<Piece(pg, ln, "code")>>,
     sku |-> <<Piece(pg, ln, "code")>>,
     product_description |-> <<Piece(pg, ln, "desc")>>,
     pg |-> pg, ln |-> ln]

\* for page in pdf.pages: ... in_items = False
Retro51Page ==
    /\ pc = "page"
    /\ vendor \in {"retro51", "twsbi"}
    /\ IF p > Len(doc)
       THEN pc' = "done" /\ UNCHANGED <<p, i, in_items, scanned>>
       ELSE /\ scanned' = scanned \cup {p}
            /\ IF doc[p].lines = <<>>
               THEN p' = p + 1 /\ UNCHANGED <<pc, i, in_items>>
               ELSE pc' = "line" /\ i' = 1 /\ in_items' = FALSE /\ p' = p
    /\ UNCHANGED <<callVars, text, ownVars, invoice_format, vendor,
                   include_zero_qty, doc, table_idx, pending_item_number, items>>

\* One iteration of  for line in lines  (or its end).
Retro51Line ==
    /\ pc = "line"
    /\ vendor \in {"retro51", "twsbi"}
    /\ IF i > Len(doc[p].lines)
       THEN pc' = "page" /\ p' = p + 1 /\ UNCHANGED <<i, in_items, items>>
       ELSE LET line == doc[p].lines[i]
            IN  IF line.k = "hdr"
                THEN in_items' = TRUE /\ i' = i + 1 /\ UNCHANGED <<pc, p, items>>
                ELSE IF in_items /\ line.k = "stop"
                THEN pc' = "page" /\ p' = p + 1 /\ UNCHANGED <<i, in_items, items>>
                ELSE /\ i' = i + 1
                     /\ items' =
                          IF /\ in_items
                             /\ line.k = "item"
                             /\ (line.q # 0 \/ include_zero_qty)
                             /\ line.ok
                          THEN Append(items, Retro51Record(line, p, i))
                          ELSE items
                     /\ UNCHANGED <<pc, p, in_items>>
    /\ UNCHANGED <<callVars, text, ownVars, invoice_format, vendor,
                   include_zero_qty, doc, table_idx, pending_item_number,
                   scanned>>

----------------------------------------------------------------------------
(* The scanners of lines that have a header line, over documents of        *)
(* several pages.                                                          *)

MaxResetLen == 3

InitReset ==
    \/ ScanInit("itoya", TextDocs(ItoyaLines, MaxResetLen))
    \/ ScanInit("toms_studio", TextDocs(TomsLines, MaxResetLen))
    \/ ScanInit("lamy", TextDocs(LamyLines, MaxResetLen))
    \/ ScanInit("montblanc", TextDocs(MontblancLines, MaxResetLen))
    \/ ScanInit("retro51", TextDocs(Retro51Lines, MaxResetLen))
    \/ ScanInit("twsbi", TextDocs(Retro51Lines, MaxResetLen))
    \/ ScanInit("exaclair", TextDocs(ExaclairCore, MaxResetLen))
    \/ ScanInit("ameico", TextDocs(AmeicoLines, MaxResetLen))
    \/ ScanInit("chartpak", TextDocs(ChartpakLines, MaxResetLen))
    \/ ScanInit("jpt", TextDocs(JPTLines, MaxResetLen))

NextReset ==
    \/ NextItoya
    \/ NextToms
    \/ NextLamy
    \/ NextMontblanc
    \/ Retro51Page
    \/ Retro51Line
    \/ NextExaclair
    \/ NextAmeico
    \/ NextChartpak
    \/ NextJPT

SpecReset == InitReset /\ [][NextReset]_vars


----------------------------------------------------------------------------
(* PlotterParser.parse.  Classes of the stripped line:                     *)
(*   skip  empty, a header or footer phrase, or a standalone price         *)
(*   usd   the line USD                                                    *)
(*   size  a size in parentheses followed by USD                           *)
(*   b     Qty x SKU Description $Price: matches the Pattern B line and    *)
(*         the first line of Pattern A                                     *)
(*   desc  Description $Total: matches the first line of Pattern A only    *)
(*   qty   Qty x SKU $UnitPrice: matches the second line of Pattern A and  *)
(*         its first line                                                  *)
(*   text  any other line                                                  *)
(* q is the quantity group; ok says that the amount [\d,.]+ that ends the  *)
(* line is a number.  No description of the model holds a PLT code.        *)

PlotterLines ==
    {[k |-> "skip"], [k |-> "usd"], [k |-> "size"], [k |-> "text"],
     [k |-> "b", q |-> 0, ok |-> TRUE], [k |-> "b", q |-> 2, ok |-> TRUE],
     [k |-> "b", q |-> 2, ok |-> FALSE],
     [k |-> "desc", ok |-> TRUE], [k |-> "desc", ok |-> FALSE],
     [k |-> "qty", q |-> 0, ok |-> TRUE], [k |-> "qty", q |-> 2, ok |-> TRUE],
     [k |-> "qty", q |-> 2, ok |-> FALSE]}

\* The record of the item whose quantity and SKU stand on line ln, with the
\* description pieces desc.
PlotterRecord(line, pg, ln, desc) ==
    [quantity |-> line.q,
     item_number |-> <<Piece(pg, ln, "sku")>>,
     sku |-> <<Piece(pg, ln, "sku")>>,
     product_description |-> desc,
     pg |-> pg, ln |-> ln]

\* matchB and next_line == "USD"
PlotterPatternB(lines, j) ==
    /\ j + 1 <= Len(lines)
    /\ lines[j].k = "b"
    /\ lines[j + 1].k = "usd"

\* match1 and match2 and match3
PlotterPatternA(lines, j) ==
    /\ j + 2 <= Len(lines)
    /\ lines[j].k \in {"b", "desc", "qty"}
    /\ lines[j + 1].k = "qty"
    /\ lines[j + 2].k \in {"usd", "size"}

\* for page in pdf.pages: ... i = 0   (PlotterParser and TSLParser)
PlotterPage ==
    /\ pc = "page"
    /\ vendor \in {"plotter", "tsl"}
    /\ IF p > Len(doc)
       THEN pc' = "done" /\ UNCHANGED <<p, i, scanned>>
       ELSE /\ scanned' = scanned \cup {p}
            /\ IF doc[p].lines = <<>>
               THEN p' = p + 1 /\ UNCHANGED <<pc, i>>
               ELSE pc' = "line" /\ i' = 1 /\ p' = p
    /\ UNCHANGED <<callVars, text, ownVars, invoice_format, vendor,
                   include_zero_qty, doc, in_items, table_idx,
                   pending_item_number, items>>

\* One iteration of  while i < len(lines)  (or its end).
PlotterLine ==
    /\ pc = "line"
    /\ vendor = "plotter"
    /\ IF i > Len(doc[p].lines)
       THEN pc' = "page" /\ p' = p + 1 /\ UNCHANGED <<i, items>>
       ELSE LET lines == doc[p].lines
            IN  IF lines[i].k = "skip"
                THEN i' = i + 1 /\ UNCHANGED <<pc, p, items>>
                ELSE IF /\ PlotterPatternB(lines, i)
                        /\ \/ lines[i].q = 0 /\ ~include_zero_qty
                           \/ lines[i].ok
                THEN /\ i' = i + 2
                     /\ items' =
                          IF lines[i].q = 0 /\ ~include_zero_qty
                          THEN items
                          ELSE Append(items,
                                   PlotterRecord(lines[i], p, i,
                                       <<Piece(p, i, "desc")>>))
                     /\ UNCHANGED <<pc, p>>
                ELSE IF /\ PlotterPatternA(lines, i)
                        /\ \/ lines[i + 1].q = 0 /\ ~include_zero_qty
                           \/ lines[i + 1].ok /\ lines[i].ok
                THEN /\ i' = i + 3
                     /\ items' =
                          IF lines[i + 1].q = 0 /\ ~include_zero_qty
                          THEN items
                          ELSE Append(items,
                                   PlotterRecord(lines[i + 1], p, i + 1,
                                       <<Piece(p, i, "desc")>> \o
                                       (IF lines[i + 2].k = "size"
                                        THEN <<Piece(p, i + 2, "size")>>
                                        ELSE <<>>)))
                     /\ UNCHANGED <<pc, p>>
                ELSE i' = i + 1 /\ UNCHANGED <<pc, p, items>>
    /\ UNCHANGED <<callVars, text, ownVars, invoice_format, vendor,
                   include_zero_qty, doc, in_items, table_idx,
                   pending_item_number, scanned>>

----------------------------------------------------------------------------
(* TSLParser.parse.  Classes of the stripped line:                         *)
(*   foot  empty, or contains ORDER NUMBER or "of 6": skipped, and never   *)
(*         taken as a colour                                               *)
(*   note  another skipped phrase (Your Order, tracking number, ...)       *)
(*   item  matches SKU Description x Qty; q is the quantity group          *)
(*   sl    starts with SL_ without matching the item pattern               *)
(*   text  any other line                                                  *)

TSLLines ==
    {[k |-> "foot"], [k |-> "note"], [k |-> "sl"], [k |-> "text"],
     [k |-> "item", q |-> 0], [k |-> "item", q |-> 2]}

\* The line taken as the colour of the item on line j - 1, if any:
\* next_line and not re.match(r"^SL_", next_line) and "of 6" not in
\* next_line and "ORDER NUMBER" not in next_line
TSLColor(lines, j) ==
    IF j <= Len(lines) /\ lines[j].k \in {"note", "text"} THEN <<j>> ELSE <<>>

TSLRecord(line, pg, ln, color) ==
    [quantity |-> line.q,
     item_number |-> <<Piece(pg, ln, "sku")>>,
     sku |-> <<Piece(pg, ln, "sku")>>,
     product_description |->
         <<Piece(pg, ln, "desc")>> \o [m \in DOMAIN color |-> Piece(pg, color[m], "line")],
     pg |-> pg, ln |-> ln]

\* One iteration of  while i < len(lines)  (or its end).
TSLLine ==
    /\ pc = "line"
    /\ vendor = "tsl"
    /\ IF i > Len(doc[p].lines)
       THEN pc' = "page" /\ p' = p + 1 /\ UNCHANGED <<i, items>>
       ELSE LET lines == doc[p].lines
            IN  IF \/ lines[i].k # "item"
                   \/ lines[i].q = 0 /\ ~include_zero_qty
                THEN i' = i + 1 /\ UNCHANGED <<pc, p, items>>
                ELSE /\ i' = i + 1 + Len(TSLColor(lines, i + 1))
                     /\ items' = Append(items,
                                     TSLRecord(lines[i], p, i,
                                         TSLColor(lines, i + 1)))
                     /\ UNCHANGED <<pc, p>>
    /\ UNCHANGED <<callVars, text, ownVars, invoice_format, vendor,
                   include_zero_qty, doc, in_items, table_idx,
                   pending_item_number, scanned>>

MaxPlotterLen == 3

InitPlotter ==
    \/ ScanInit("plotter", TextDocs(PlotterLines, MaxPlotterLen))
    \/ ScanInit("tsl", TextDocs(TSLLines, MaxPlotterLen))

NextPlotter == PlotterPage \/ PlotterLine \/ TSLLine

SpecPlotter == InitPlotter /\ [][NextPlotter]_vars


----------------------------------------------------------------------------
(* The scanners that move a cursor i over the lines (rows) of a page in a  *)
(* while loop.  The interpreter runs a loop step after step, so a step that *)
(* can be taken is taken: the fair specification assumes no more.          *)

MaxCursorLen == 3

\* Kenro tables of a header row, an item row and up to MaxCursorLen - 1
\* rows with a description only.
KenroCursorDocs ==
    { <<TablePage(<< <<KenroHeader,
                       KenroDataRow(<<"E", "1">>, <<"N", "i", "b", " ", "F">>,
                                    q, pr, <<>>)>>
                     \o [n \in 1..m |->
                            KenroDataRow(<<>>, <<"I", "n", "k", "P", "e", "n">>,
                                         <<>>, <<>>, <<>>)] >>)>> :
        q \in KenroQtyCells, pr \in KenroPriceCells \cup {<<"x">>},
        m \in 0..(MaxCursorLen - 1) }

InitCursor ==
    \/ ScanInit("itoya", TextDocs(ItoyaLines, MaxCursorLen))
    \/ ScanInit("luxury_brands", TextDocs(LuxuryLines, MaxCursorLen))
    \/ ScanInit("toms_studio", TomsDocs)
    \/ ScanInit("lamy", TextDocs(LamyLines, MaxCursorLen))
    \/ ScanInit("montblanc", TextDocs(MontblancLines, MaxCursorLen))
    \/ ScanInit("kenro", KenroCursorDocs)
    \/ ScanInit("plotter", TextDocs(PlotterLines, MaxCursorLen))
    \/ ScanInit("tsl", TextDocs(TSLLines, MaxCursorLen))
    \/ ScanInit("uniball", UniBallDocs(MaxCursorLen))
    \/ ScanInit("ameico", AmeicoDocs(MaxCursorLen + 1))

NextCursor ==
    \/ NextItoya
    \/ NextLuxury
    \/ NextToms
    \/ NextLamy
    \/ NextMontblanc
    \/ NextKenro
    \/ NextPlotter
    \/ NextUniBall
    \/ NextAmeico

SpecCursor == InitCursor /\ [][NextCursor]_vars /\ WF_vars(NextCursor)


----------------------------------------------------------------------------
(* Detection, dispatch and the scanners' parses next to one another: the   *)
(* operations that could touch the registry.                               *)

InitRegistry == InitDetect \/ InitDispatch \/ InitReset

NextRegistry == NextDetect \/ NextDispatch \/ NextReset

SpecRegistry == InitRegistry /\ [][NextRegistry]_vars

----------------------------------------------------------------------------
(* C1: with include_zero_qty false no record of the returned sequence has  *)
(* quantity 0.                                                             *)

C1_NoZeroQuantity ==
    ~include_zero_qty => \A n \in 1..Len(items) : items[n].quantity # 0

----------------------------------------------------------------------------
(* C2: detect_vendor returns the first vendor, in the fixed order, whose   *)
(* predicate the first-page text satisfies, and "" when none does.         *)

DetectOrder ==
    << "itoya", "luxury_brands", "rediform", "toms_studio", "coles", "lamy",
       "pilot", "montblanc", "lighthouse", "retro51", "twsbi", "writeusa",
       "kenro", "avanti", "plotter", "tsl", "exaclair", "uniball", "ameico",
       "chartpak", "jpt", "wearingeul", "elite_accessories" >>

C2_FirstMatchWins ==
    pc = "detected" =>
        \/ /\ vendor = ""
           /\ \A k \in 1..Len(DetectOrder) : ~VendorPredicate(DetectOrder[k], text)
        \/ \E k \in 1..Len(DetectOrder) :
              /\ vendor = DetectOrder[k]
              /\ VendorPredicate(DetectOrder[k], text)
              /\ \A j \in 1..(k - 1) : ~VendorPredicate(DetectOrder[j], text)

\* A text that satisfies the predicates of two vendors, detected as the earlier.
C2_Witness ==
    /\ pc = "detected"
    /\ vendor = "coles"
    /\ VendorPredicate("lamy", text)

----------------------------------------------------------------------------
(* C9: Luxury Brands carry-over.  A site is a page a whose last line is a  *)
(* bare ordinal, the next page b that has text, and the first non-empty    *)
(* line j of b, which does not start with an ordinal.                      *)

CarrySites ==
    {s \in (DOMAIN doc) \X (DOMAIN doc) \X (1..MaxDocLen + 1) :
        LET a == s[1]  b == s[2]  j == s[3] IN
        /\ a < b
        /\ doc[a].lines # <<>>
        /\ doc[a].lines[Len(doc[a].lines)].k = "ord"
        /\ \A c \in (a + 1)..(b - 1) : doc[c].lines = <<>>
        /\ j \in DOMAIN doc[b].lines
        /\ \A m \in 1..(j - 1) : doc[b].lines[m].k = "blank"
        /\ doc[b].lines[j].k # "blank"
        /\ ~LuxuryStartsWithOrdinal(doc[b].lines[j])}

\* The fragment held at the end of page a.
CarryFragment(a) == <<Piece(a, Len(doc[a].lines), "ord")>>

\* The records made with the fragment of page a put before their line.
CarryRecords(a) == {n \in DOMAIN items : items[n].frag = CarryFragment(a)}

\* The joined line is an item line with float prices that passes the
\* quantity gate.
CarryYields(line) ==
    /\ line.k = "tail"
    /\ line.ok
    /\ (line.q # 0 \/ include_zero_qty)

\* What C9 states of a site apart from the number of records: the records
\* made with the fragment are read at line j of page b, no record is read at
\* the fragment's line, none at line j without the fragment.
CarryNoPartial(a, b, j) ==
    /\ \A n \in CarryRecords(a) : items[n].pg = b /\ items[n].ln = j
    /\ \A n \in DOMAIN items :
          /\ ~(items[n].pg = a /\ items[n].ln = Len(doc[a].lines))
          /\ (items[n].pg = b /\ items[n].ln = j) => n \in CarryRecords(a)

\* The carry-over slot does not hold a fragment that a record was made with.
CarrySlotEmptied ==
    \A n \in DOMAIN items :
        items[n].frag # <<>> => items[n].frag # pending_item_number

\* C9 as stated: at every site the fragment and the line after it make
\* exactly one record, no partial record is made, and the slot is empty
\* once the fragment is used.
C9_ExactlyOneRecord ==
    /\ CarrySlotEmptied
    /\ pc = "done" =>
         \A s \in CarrySites :
            /\ Cardinality(CarryRecords(s[1])) = 1
            /\ CarryNoPartial(s[1], s[2], s[3])

\* C9, amended: at every site the fragment and the line after it make one
\* record when the joined line matches the item pattern with float prices
\* and passes the quantity gate, and no record otherwise; no partial record
\* is made, and the slot is empty once the fragment is used.
C9_CarryOver ==
    /\ CarrySlotEmptied
    /\ pc = "done" =>
         \A s \in CarrySites :
            /\ Cardinality(CarryRecords(s[1])) =
                  (IF CarryYields(doc[s[2]].lines[s[3]]) THEN 1 ELSE 0)
            /\ CarryNoPartial(s[1], s[2], s[3])

\* A finished scan of a document with a site whose joined line made a record.
C9_Witness ==
    /\ pc = "done"
    /\ vendor = "luxury_brands"
    /\ \E s \in CarrySites :
          /\ CarryYields(doc[s[2]].lines[s[3]])
          /\ Cardinality(CarryRecords(s[1])) = 1
          /\ pending_item_number = <<>>

----------------------------------------------------------------------------
(* C10: the item window of the Montblanc scanner.  Line ln of a page is   *)
(* inside the window when a header line precedes it on the page with no    *)
(* footer line between the two.                                            *)

MontblancInWindow(lines, ln) ==
    \E h \in 1..(ln - 1) :
        /\ lines[h].k = "hdr"
        /\ \A m \in (h + 1)..(ln - 1) : ~MontblancFooter(lines[m])

\* C10: every record is taken from a line inside the item window: a line
\* before the first header of its page, or after a footer line with no
\* header in between, yields no record.
C10_OutsideWindowIgnored ==
    vendor = "montblanc" =>
        \A n \in DOMAIN items :
            MontblancInWindow(doc[items[n].pg].lines, items[n].ln)

----------------------------------------------------------------------------
\* C6: every record has a non-empty item_number, a non-empty sku and a
\* non-empty product_description.
C6_FieldsNonEmpty ==
    \A n \in DOMAIN items :
        /\ items[n].item_number # <<>>
        /\ items[n].sku # <<>>
        /\ items[n].product_description # <<>>

\* C7: every record's quantity is a non-negative integer, never negative
\* and never fractional.
C7_QuantityNonNegativeInteger ==
    \A n \in DOMAIN items :
        /\ items[n].quantity.type = "int"
        /\ items[n].quantity.tenths >= 0
        /\ items[n].quantity.tenths % 10 = 0

\* C8: every record's product_description is a single line without a run
\* of whitespace: no newline in it, no two whitespace characters in a row.
C8_DescriptionSingleLine ==
    \A n \in DOMAIN items :
        LET d == items[n].product_description
        IN  /\ \A c \in DOMAIN d : d[c] # "\n"
            /\ \A c \in 1..(Len(d) - 1) :
                   ~(d[c] \in Whitespace /\ d[c + 1] \in Whitespace)

----------------------------------------------------------------------------
(* C4: pages scanned and the order of the output.                          *)

\* Where a record was taken from: page, table of the page (0 for a text
\* line), line or row.
Position(r) == <<r.pg, IF "tb" \in DOMAIN r THEN r.tb ELSE 0, r.ln>>

\* Position a is later than position b.
Later(a, b) ==
    \/ a[1] > b[1]
    \/ a[1] = b[1] /\ a[2] > b[2]
    \/ a[1] = b[1] /\ a[2] = b[2] /\ a[3] > b[3]

\* No record appears after a record taken from a later place.
EncounterOrder ==
    \A m, n \in DOMAIN items :
        m < n => ~Later(Position(items[m]), Position(items[n]))

\* C4 as stated: when a scanner returns it has scanned every page of the
\* document, and its records are in encounter order.
C4_EveryPageScanned ==
    /\ EncounterOrder
    /\ pc = "done" => scanned = DOMAIN doc

\* C4, amended: when a scanner returns it has scanned every page of the
\* document (the Elite Accessories scanner: every page from the third on,
\* none of a document of fewer than three pages), and its records are in
\* encounter order.
C4_PagesScannedInOrder ==
    /\ EncounterOrder
    /\ pc = "done" =>
         scanned = IF vendor = "elite_accessories"
                   THEN {pg \in DOMAIN doc : pg >= 3}
                   ELSE DOMAIN doc

\* The Elite Accessories scanner has returned records of two pages of a
\* document of four pages.
C4_Witness ==
    /\ pc = "done"
    /\ vendor = "elite_accessories"
    /\ scanned = {3, 4}
    /\ \E m, n \in DOMAIN items : items[m].pg = 3 /\ items[n].pg = 4

----------------------------------------------------------------------------
(* C3: dispatch.                                                           *)

\* The invocations of a vendor scanner, and those of the generic parser.
ScannerCalls == {n \in DOMAIN calls : calls[n].parser # "generic"}

GenericCalls == {n \in DOMAIN calls : calls[n].parser = "generic"}

\* C3: parse_with_custom_parser returns the empty sequence without invoking
\* a scanner when the document has no pages or the detected vendor is not in
\* the registry, and otherwise invokes the scanner bound to the vendor once
\* and returns its records; extract_line_items returns the scanner's records
\* when they are non-empty, and invokes the generic parser, returning its
\* records, exactly when the vendor path returned nothing.
C3_Dispatch ==
    /\ pc \in {"custom", "done"} =>
         IF doc = <<>> \/ detect_vendor(text) \notin CUSTOM_PARSERS
         THEN custom_items = <<>> /\ ScannerCalls = {}
         ELSE /\ ScannerCalls = {1}
              /\ calls[1].parser = detect_vendor(text)
              /\ custom_items = calls[1].returned
    /\ pc = "custom" => GenericCalls = {}
    /\ pc = "done" =>
         /\ custom_items # <<>> => items = custom_items /\ GenericCalls = {}
         /\ custom_items = <<>> =>
               /\ GenericCalls = {Len(calls)}
               /\ items = calls[Len(calls)].returned

\* The scanner bound to the detected vendor returned nothing and the
\* generic parser was invoked after it.
C3_Witness ==
    /\ pc = "done"
    /\ vendor = "lamy"
    /\ Len(calls) = 2
    /\ calls[1] = [parser |-> "lamy", returned |-> <<>>]
    /\ calls[2].parser = "generic"
    /\ items = calls[2].returned
    /\ items # <<>>

----------------------------------------------------------------------------
\* C5: a document parsed, another document parsed after it, and the first
\* document parsed again with the same include_zero_qty: the third call
\* returns the records the first call returned.
C5_SameRecordsAgain ==
    (pc = "done" /\ queue = <<>> /\ Len(results) = 2) =>
        /\ results[1].doc = doc
        /\ items = results[1].items

\* The document parsed in between ended with a held fragment, the document
\* parsed again begins with a line the fragment would join, and the third
\* call has returned.
C5_Witness ==
    /\ pc = "done"
    /\ queue = <<>>
    /\ Len(results) = 2
    /\ LET other == results[2].doc
           last == other[Len(other)].lines
       IN  /\ last # <<>>
           /\ last[Len(last)].k = "ord"
    /\ doc[1].lines # <<>>
    /\ doc[1].lines[1].k = "tail"
    /\ Len(items) >= 1
    /\ items = results[1].items

-----------------------------------------------------------------------------
(* C11: Tom's Studio rule priority.  At every cursor position inside the    *)
(* item window the rules are tried in the order C, D, E, F, A, B; the first *)
(* of C, D, E, F that matches emits at most one record, moves the cursor    *)
(* past the lines it consumed (C 3, D 5, E 3, F 3), and no rule after it    *)
(* emits a record at that position.                                         *)

\* The cursor is on a line of the item window that is neither the header
\* nor the end of the items.
C11_InWindow ==
    /\ pc = "line"
    /\ vendor = "toms_studio"
    /\ i <= Len(doc[p].lines)
    /\ in_items
    /\ ~TomsIsHeader(doc[p].lines[i])
    /\ ~TomsIsEnd(doc[p].lines[i])

C11_Priority == <<"C", "D", "E", "F">>

C11_Lines(rule) == CASE rule = "C" -> 3 [] rule = "D" -> 5 [] rule = "E" -> 3 [] rule = "F" -> 3

\* The records this step appended.
C11_Emitted == {items'[n] : n \in (Len(items) + 1)..Len(items')}

\* The step is the step of rule r: at most one record, which is r's and of
\* this position, and the cursor past r's lines; with no such rule, records
\* of rule A or B only.
C11_Obeys(r) ==
    /\ Len(items') >= Len(items)
    /\ SubSeq(items', 1, Len(items)) = items
    /\ IF r = ""
       THEN \A it \in C11_Emitted : it.rule \in {"A", "B"}
       ELSE /\ i' = i + C11_Lines(r)
            /\ Len(items') <= Len(items) + 1
            /\ \A it \in C11_Emitted : it.rule = r /\ it.pg = p /\ it.ln = i

\* The first rule in priority order whose pattern matches and whose
\* quantity and prices convert.
C11_FirstMatch ==
    LET ms == {n \in 1..4 : TomsMatches(C11_Priority[n], doc[p].lines, i)}
    IN  IF ms = {} THEN "" ELSE C11_Priority[CHOOSE n \in ms : \A m \in ms : n <= m]

\* The first rule in priority order whose pattern matches.
C11_FirstPattern ==
    LET ms == {n \in 1..4 : TomsPattern(C11_Priority[n], doc[p].lines, i)}
    IN  IF ms = {} THEN "" ELSE C11_Priority[CHOOSE n \in ms : \A m \in ms : n <= m]

-----------------------------------------------------------------------------
(* C13: Tom's Studio split-identifier assembly.  A prefix line, a data line *)
(* with description, middle identifier fragment, quantity, tax, unit price  *)
(* and total, and a suffix line, all inside the item window, give a single  *)
(* record whose identifier is prefix + middle + suffix and whose            *)
(* description excludes the middle fragment.                                *)

\* Lines j, j + 1, j + 2 of page pg are such a prefix, data line and suffix
\* below the header of the items, and the data line passes the quantity gate.
C13_Split(pg, j) ==
    LET lines == doc[pg].lines
    IN  /\ j + 2 <= Len(lines)
        /\ TomsSkuPart(lines[j])
        /\ TomsDescSkuData(lines[j + 1])
        /\ lines[j + 1].hy /\ lines[j + 1].ok
        /\ (lines[j + 1].q > 0 \/ include_zero_qty)
        /\ TomsSkuPart(lines[j + 2])
        /\ \E h \in 1..(j - 1) :
              /\ TomsIsHeader(lines[h])
              /\ \A m \in (h + 1)..(j - 1) : lines[m].k = "text"

C13_SplitIdentifier ==
    (vendor = "toms_studio" /\ pc = "done") =>
        \A pg \in DOMAIN doc : \A j \in 1..Len(doc[pg].lines) :
            C13_Split(pg, j) =>
                LET recs == {n \in DOMAIN items :
                                items[n].pg = pg /\ items[n].ln \in {j, j + 1}}
                IN  /\ Cardinality(recs) = 1
                    /\ \A n \in recs :
                          /\ items[n].item_number =
                                 <<Piece(pg, j, "line"), Piece(pg, j + 1, "middle"),
                                   Piece(pg, j + 2, "line")>>
                          /\ \A m \in DOMAIN items[n].product_description :
                                 items[n].product_description[m] # Piece(pg, j + 1, "middle")

-----------------------------------------------------------------------------
(* C12: in the scanners that assemble a description from following lines,   *)
(* a line that matches the vendor's start-of-next-record pattern is never   *)
(* absorbed into the preceding record's description and never skipped as    *)
(* part of that record; it is scanned as the start of its own record.       *)
(* Stated for Lamy: no record's description is taken from a line that       *)
(* matches the item pattern of the record's format.                         *)

C12_NeverAbsorbed ==
    vendor = "lamy" =>
        \A n \in DOMAIN items :
            \A m \in DOMAIN items[n].product_description :
                LET piece == items[n].product_description[m]
                IN  ~LamyMatches(items[n].format, doc[piece.pg].lines[piece.ln])

-----------------------------------------------------------------------------
(* C14: a single malformed line or table row (a non-numeric quantity or     *)
(* price, an empty row, a row with fewer cells than the header's column     *)
(* indices) never makes parse raise.  Stated for Write USA: no exception    *)
(* leaves parse.                                                            *)

C14_NeverRaises == vendor = "writeusa" => pc # "raised"


-----------------------------------------------------------------------------
(* C15: in every table of a document the generic parser has read, the      *)
(* header is the first of the first 5 rows whose cells contain at least 3  *)
(* of the indicator terms; every record read under a header of the table   *)
(* names that row as its header and comes from a row below it, a table     *)
(* without such a row gives no record under a header of its own, and a     *)
(* complete row below the header gives a record.  The statement is checked *)
(* with the terms as stated (quantity, item, sku, product, price, amount,  *)
(* total) and with the term qty added to them.                             *)
C15_StatedTerms == {"quantity", "item", "sku", "product", "price", "amount", "total"}

C15_Terms == C15_StatedTerms \cup {"qty"}

C15_Has(terms, row) ==
    Cardinality({t \in terms : \E n \in DOMAIN row : IndicatorIn(t, row[n])}) >= 3

C15_Header(terms, table) ==
    LET at == {n \in DOMAIN table : n <= 5 /\ C15_Has(terms, table[n])}
    IN  IF at = {} THEN 0 ELSE CHOOSE n \in at : \A m \in at : n <= m

C15_From(pg, tb) == {n \in DOMAIN items : items[n].pg = pg /\ items[n].tb = tb}

C15_Detected(terms) ==
    (pc = "done" /\ vendor = "") =>
        \A pg \in DOMAIN doc : \A tb \in DOMAIN doc[pg].tables :
            LET table == doc[pg].tables[tb]
                h == C15_Header(terms, table)
            IN  /\ \A n \in C15_From(pg, tb) :
                       IF h # 0
                       THEN /\ items[n].header = <<[pg |-> pg, tb |-> tb, ln |-> h]>>
                            /\ items[n].ln > h
                       ELSE items[n].header[1].pg # pg \/ items[n].header[1].tb # tb
                /\ h # 0 =>
                       \A m \in DOMAIN table :
                           (m > h /\ table[m] = GenericGoodRow) =>
                               \E n \in C15_From(pg, tb) : items[n].ln = m

C15_HeaderByStatedTerms == C15_Detected(C15_StatedTerms)

C15_HeaderByTerms == C15_Detected(C15_Terms)

\* A table read to its end with complete rows above and below its header,
\* the header being a row that has three of the terms only with qty.
C15_Witness ==
    /\ pc = "done" /\ vendor = ""
    /\ \E pg \in DOMAIN doc : \E tb \in DOMAIN doc[pg].tables :
           LET table == doc[pg].tables[tb]
               h == C15_Header(C15_Terms, table)
           IN  /\ h > 1
               /\ C15_Header(C15_StatedTerms, table) = 0
               /\ table[1] = GenericGoodRow
               /\ \E n \in C15_From(pg, tb) : items[n].ln > h


-----------------------------------------------------------------------------
(* C16: in a table whose header, among its first 5 rows, holds the six     *)
(* cells Qty, Item#, SKU, Description, Price, Amount in some order, every  *)
(* row below the header with a numeric quantity cell and non-empty item,   *)
(* sku and description cells gives exactly one record, and its fields are  *)
(* the values of the cells under the headers.  As stated, the value of a   *)
(* text cell is its text with the whitespace normalised and the value of a *)
(* number cell its number.  As amended, the cells are none of the words    *)
(* None and null, quantity is the whole part of the number, item_number    *)
(* the text before the first "/", and a price that is no number is None.   *)
C16_IsHeader(row) ==
    /\ Len(row) = Len(GenericHeader)
    /\ {row[n] : n \in DOMAIN row} = {GenericHeader[n] : n \in DOMAIN GenericHeader}

C16_Header(table) ==
    LET at == {n \in DOMAIN table : C16_IsHeader(table[n])}
    IN  IF at = {} THEN 0 ELSE CHOOSE n \in at : \A m \in at : n <= m

\* The cell of the row under the header cell of one word.
C16_Under(table, row, word) ==
    row[CHOOSE n \in DOMAIN row : table[C16_Header(table)][n] = <<word>>]

\* The number a word stands for, in hundredths.
C16_Hundredths(w) ==
    CASE w = "0" -> 0
      [] w = "2" -> 200
      [] w \in {"2.5", "2.50"} -> 250
      [] w = "5.00" -> 500

C16_Numeric(cell) == Len(Strip(cell)) = 1 /\ IsFloat(Strip(cell)[1])

C16_Word(cell) == IF Len(Normalised(cell)) = 1 THEN Lower(Normalised(cell)[1]) ELSE ""

\* The rows the statement is about.
C16_Complete(table, row) ==
    /\ Len(row) = Len(GenericHeader)
    /\ C16_Numeric(C16_Under(table, row, "Qty"))
    /\ \A w \in {"Item#", "SKU", "Description"} : Strip(C16_Under(table, row, w)) # <<>>

C16_Named(table, row) ==
    \A w \in {"Item#", "SKU", "Description"} :
        C16_Word(C16_Under(table, row, w)) \notin {"none", "null"}

C16_BeforeSlash(item) ==
    IF \E n \in DOMAIN item : HasSlash(item[n])
    THEN LET n == CHOOSE n \in DOMAIN item :
                      HasSlash(item[n]) /\ \A m \in 1..(n - 1) : ~HasSlash(item[m])
         IN  Strip(SubSeq(item, 1, n - 1) \o <<BeforeSlash(item[n])>>)
    ELSE item

C16_PriceAsStated(cell, price) ==
    C16_Numeric(cell) => price # <<>> /\ C16_Hundredths(price[1]) = C16_Hundredths(Strip(cell)[1])

C16_Price(cell, price) ==
    LET w == IF Len(Strip(cell)) = 1 THEN Unmarked(Strip(cell)[1]) ELSE ""
    IN  IF IsFloat(w)
        THEN price # <<>> /\ C16_Hundredths(price[1]) = C16_Hundredths(w)
        ELSE price = <<>>

C16_CellValuesAsStated(table, row, rec) ==
    /\ rec.quantity * 100 = C16_Hundredths(Strip(C16_Under(table, row, "Qty"))[1])
    /\ rec.item_number = Normalised(C16_Under(table, row, "Item#"))
    /\ rec.sku = Normalised(C16_Under(table, row, "SKU"))
    /\ rec.product_description = Normalised(C16_Under(table, row, "Description"))
    /\ C16_PriceAsStated(C16_Under(table, row, "Price"), rec.unit_price)
    /\ C16_PriceAsStated(C16_Under(table, row, "Amount"), rec.total_amount)

C16_CellValues(table, row, rec) ==
    /\ rec.quantity = C16_Hundredths(Strip(C16_Under(table, row, "Qty"))[1]) \div 100
    /\ rec.item_number = C16_BeforeSlash(Normalised(C16_Under(table, row, "Item#")))
    /\ rec.sku = Normalised(C16_Under(table, row, "SKU"))
    /\ rec.product_description = Normalised(C16_Under(table, row, "Description"))
    /\ C16_Price(C16_Under(table, row, "Price"), rec.unit_price)
    /\ C16_Price(C16_Under(table, row, "Amount"), rec.total_amount)

C16_Of(pg, tb, m) ==
    {n \in DOMAIN items : items[n].pg = pg /\ items[n].tb = tb /\ items[n].ln = m}

C16_Mapped(Rows(_, _), Values(_, _, _)) ==
    (pc = "done" /\ vendor = "") =>
        \A pg \in DOMAIN doc : \A tb \in DOMAIN doc[pg].tables :
            LET table == doc[pg].tables[tb]
                h == C16_Header(table)
            IN  (h \in 1..5) =>
                    \A m \in DOMAIN table :
                        (m > h /\ Rows(table, table[m])) =>
                            /\ Cardinality(C16_Of(pg, tb, m)) = 1
                            /\ \A n \in C16_Of(pg, tb, m) : Values(table, table[m], items[n])

-----------------------------------------------------------------------------
(* C17: at every point of the scan of a document, every record read from a *)
(* table without header was read under the header of the latest table with *)
(* a header before it in page and table order, on its page or on a page    *)
(* before; so a table without header that has no table with a header       *)
(* before it gives no record.  When the scan is done, a complete row of    *)
(* such a table has a record whose quantity is the cell in the column that *)
(* the latest header names Qty.                                            *)
C17_Header(pg, tb) == C15_Header(C15_Terms, doc[pg].tables[tb])

C17_HeadersBefore(pg, tb) ==
    { x \in UNION {{<<a, b>> : b \in DOMAIN doc[a].tables} : a \in 1..pg} :
        /\ x[1] < pg \/ x[2] < tb
        /\ C17_Header(x[1], x[2]) # 0 }

C17_Latest(pg, tb) ==
    CHOOSE x \in C17_HeadersBefore(pg, tb) :
        \A y \in C17_HeadersBefore(pg, tb) :
            y[1] < x[1] \/ (y[1] = x[1] /\ y[2] <= x[2])

C17_LatestPosition(pg, tb) ==
    LET x == C17_Latest(pg, tb)
    IN  <<[pg |-> x[1], tb |-> x[2], ln |-> C17_Header(x[1], x[2])]>>

C17_LatestRow(pg, tb) ==
    LET x == C17_Latest(pg, tb)
    IN  doc[x[1]].tables[x[2]][C17_Header(x[1], x[2])]

C17_QuantityUnder(header_row, row) ==
    C16_Hundredths(row[CHOOSE n \in DOMAIN header_row : header_row[n] = <<"Qty">>][1])
        \div 100

C17_LatestHeader ==
    vendor = "" =>
        /\ \A n \in DOMAIN items :
               C17_Header(items[n].pg, items[n].tb) = 0 =>
                   /\ C17_HeadersBefore(items[n].pg, items[n].tb) # {}
                   /\ items[n].header = C17_LatestPosition(items[n].pg, items[n].tb)
        /\ pc = "done" =>
               \A pg \in DOMAIN doc : \A tb \in DOMAIN doc[pg].tables :
                   (/\ doc[pg].tables[tb] # <<>>
                    /\ C17_Header(pg, tb) = 0
                    /\ C17_HeadersBefore(pg, tb) # {}
                    /\ C16_IsHeader(C17_LatestRow(pg, tb))) =>
                       \A m \in DOMAIN doc[pg].tables[tb] :
                           doc[pg].tables[tb][m] = GenericGoodRow =>
                               \E n \in C16_Of(pg, tb, m) :
                                   /\ items[n].header = C17_LatestPosition(pg, tb)
                                   /\ items[n].quantity =
                                          C17_QuantityUnder(C17_LatestRow(pg, tb),
                                                            GenericGoodRow)

\* A record of a table without header read under a header of a page before
\* that is not the first header of the document and has another column
\* order than the first.
C17_Witness ==
    /\ pc = "done" /\ vendor = ""
    /\ \E n \in DOMAIN items :
           /\ C17_Header(items[n].pg, items[n].tb) = 0
           /\ Cardinality(C17_HeadersBefore(items[n].pg, items[n].tb)) > 1
           /\ items[n].header[1].pg < items[n].pg
           /\ \E x \in C17_HeadersBefore(items[n].pg, items[n].tb) :
                  doc[x[1]].tables[x[2]][C17_Header(x[1], x[2])]
                      # C17_LatestRow(items[n].pg, items[n].tb)
           /\ items[n].quantity = 5


-----------------------------------------------------------------------------
(* C18: when the scan is done, a row with a cell in a table without header *)
(* that follows a header has at most one record.  With as many cells as    *)
(* the header it is mapped by the header: a complete row under the six     *)
(* header cells has one record with the converted cells under the headers. *)
(* With another number of cells, the cells between its first and its last  *)
(* non-empty cell survive; fewer than 5 surviving cells or a first one     *)
(* that is no number give no record, and a record holds the converted      *)
(* surviving cells 1 to 6 as quantity, item_number, sku,                   *)
(* product_description, unit_price and total_amount; a row with surviving  *)
(* item, sku and description cells has a record.                           *)
C18_Filled(row) == {n \in DOMAIN row : Strip(row[n]) # <<>>}

C18_Surviving(row) ==
    IF C18_Filled(row) = {} THEN row
    ELSE SubSeq(row, CHOOSE n \in C18_Filled(row) : \A m \in C18_Filled(row) : n <= m,
                     CHOOSE n \in C18_Filled(row) : \A m \in C18_Filled(row) : m <= n)

C18_ByPosition(cells, rec) ==
    /\ rec.quantity = C16_Hundredths(Strip(cells[1])[1]) \div 100
    /\ rec.item_number = C16_BeforeSlash(Normalised(cells[2]))
    /\ rec.sku = Normalised(cells[3])
    /\ rec.product_description = Normalised(cells[4])
    /\ C16_Price(cells[5], rec.unit_price)
    /\ IF Len(cells) > 5 THEN C16_Price(cells[6], rec.total_amount)
       ELSE rec.total_amount = <<>>

C18_Row(row, header_row, recs) ==
    /\ Cardinality(recs) <= 1
    /\ IF Len(row) = Len(header_row)
       THEN (/\ C16_IsHeader(header_row)
             /\ C16_Complete(<<header_row>>, row)
             /\ C16_Named(<<header_row>>, row)) =>
                /\ recs # {}
                /\ \A n \in recs : C16_CellValues(<<header_row>>, row, items[n])
       ELSE LET cells == C18_Surviving(row)
            IN  IF Len(cells) < 5 \/ ~C16_Numeric(cells[1])
                THEN recs = {}
                ELSE /\ \A n \in recs : C18_ByPosition(cells, items[n])
                     /\ (\A k \in 2..4 : Normalised(cells[k]) # <<>>) => recs # {}

C18_ContinuationRows ==
    (pc = "done" /\ vendor = "") =>
        \A pg \in DOMAIN doc : \A tb \in DOMAIN doc[pg].tables :
            (/\ doc[pg].tables[tb] # <<>>
             /\ C17_Header(pg, tb) = 0
             /\ C17_HeadersBefore(pg, tb) # {}) =>
                \A m \in DOMAIN doc[pg].tables[tb] :
                    (\E k \in DOMAIN doc[pg].tables[tb][m] :
                         doc[pg].tables[tb][m][k] # <<>>) =>
                        C18_Row(doc[pg].tables[tb][m], C17_LatestRow(pg, tb),
                                C16_Of(pg, tb, m))

\* A record of a row with an empty cell before its quantity and more cells
\* than the header.
C18_Witness ==
    /\ pc = "done" /\ vendor = ""
    /\ \E n \in DOMAIN items :
           LET row == doc[items[n].pg].tables[items[n].tb][items[n].ln]
           IN  /\ C17_Header(items[n].pg, items[n].tb) = 0
               /\ Len(row) > Len(C17_LatestRow(items[n].pg, items[n].tb))
               /\ row[1] = <<>>
               /\ Len(C18_Surviving(row)) >= 5


-----------------------------------------------------------------------------
(* C19: when the scan is done, a row below a header of the six header      *)
(* cells, and a row of a table without header that follows such a header   *)
(* and is read by position (five or more surviving cells, the first a      *)
(* number), has a record if and only if it has a quantity, a description   *)
(* and an item number or a sku; the record takes a missing item number     *)
(* from the sku and a missing sku from the item number.                    *)
C19_Text(cell) ==
    IF C16_Word(cell) \in {"none", "null"} THEN <<>> ELSE Normalised(cell)

C19_Record(qty, item, sku, description, recs) ==
    /\ recs # {} <=> (qty /\ description # <<>> /\ (item # <<>> \/ sku # <<>>))
    /\ \A n \in recs :
           /\ items[n].item_number = IF item = <<>> THEN sku ELSE C16_BeforeSlash(item)
           /\ items[n].sku = IF sku = <<>> THEN C16_BeforeSlash(item) ELSE sku

C19_HeaderMapped(header_row, row, recs) ==
    (C16_IsHeader(header_row) /\ Len(row) = Len(header_row)) =>
        C19_Record(C16_Numeric(C16_Under(<<header_row>>, row, "Qty")),
                   C19_Text(C16_Under(<<header_row>>, row, "Item#")),
                   C19_Text(C16_Under(<<header_row>>, row, "SKU")),
                   C19_Text(C16_Under(<<header_row>>, row, "Description")),
                   recs)

C19_ByPosition(header_row, row, recs) ==
    LET cells == C18_Surviving(row)
    IN  (/\ Len(row) # Len(header_row)
         /\ Len(cells) >= 5
         /\ C16_Numeric(cells[1])) =>
            C19_Record(TRUE, Normalised(cells[2]), Normalised(cells[3]),
                       Normalised(cells[4]), recs)

C19_RecordIffResolved ==
    (pc = "done" /\ vendor = "") =>
        \A pg \in DOMAIN doc : \A tb \in DOMAIN doc[pg].tables :
            LET table == doc[pg].tables[tb]
                h == C17_Header(pg, tb)
            IN  \A m \in DOMAIN table :
                    IF h # 0
                    THEN m > h => C19_HeaderMapped(table[h], table[m], C16_Of(pg, tb, m))
                    ELSE (C17_HeadersBefore(pg, tb) # {} /\ C18_Filled(table[m]) # {}) =>
                             /\ C19_HeaderMapped(C17_LatestRow(pg, tb), table[m],
                                                 C16_Of(pg, tb, m))
                             /\ C19_ByPosition(C17_LatestRow(pg, tb), table[m],
                                               C16_Of(pg, tb, m))

\* The same for the rows mapped by a header only.
C19_HeaderMappedOnly ==
    (pc = "done" /\ vendor = "") =>
        \A pg \in DOMAIN doc : \A tb \in DOMAIN doc[pg].tables :
            LET table == doc[pg].tables[tb]
                h == C17_Header(pg, tb)
            IN  \A m \in DOMAIN table :
                    IF h # 0
                    THEN m > h => C19_HeaderMapped(table[h], table[m], C16_Of(pg, tb, m))
                    ELSE (C17_HeadersBefore(pg, tb) # {} /\ C18_Filled(table[m]) # {}) =>
                             C19_HeaderMapped(C17_LatestRow(pg, tb), table[m],
                                              C16_Of(pg, tb, m))


-----------------------------------------------------------------------------
(* C20: every Exaclair record has the unit price, in cents, that is the    *)
(* retail price times (1 - discount / 100) rounded half-up to the cent:    *)
(* with the exact value N / M cents, unit_price is the whole number u with *)
(* u <= N / M + 1/2 < u + 1.  For a                                        *)
(* price in whole cents R and a discount in whole hundredths of a percent  *)
(* D this is (2 R (10000 - D) + 10000) div 20000; 35.20 with 52.5 gives    *)
(* 16.72 and 10.45 with 50.00 gives 5.23.  A matched line after the header *)
(* whose numbers convert has a record.                                     *)
C20_Line(n) == doc[items[n].pg].lines[items[n].ln]

\* The exact unit price of a line is C20_N(line) / C20_M(line) cents.
C20_N(line) == line.price.c * (Pow10(line.disc.e + 2) - line.disc.c)

C20_M(line) == Pow10(line.price.e + line.disc.e)

C20_HalfUp(line, u) ==
    /\ 2 * u * C20_M(line) <= 2 * C20_N(line) + C20_M(line)
    /\ 2 * C20_N(line) + C20_M(line) < 2 * (u + 1) * C20_M(line)

C20_InCents(line, u) ==
    (line.price.e <= 2 /\ line.disc.e <= 2) =>
        LET R == line.price.c * Pow10(2 - line.price.e)
            D == line.disc.c * Pow10(2 - line.disc.e)
        IN  u = (2 * R * (10000 - D) + 10000) \div 20000

C20_Examples(line, u) ==
    /\ (line.price.s = "35.20" /\ line.disc.s = "52.5") => u = 1672
    /\ (line.price.s = "10.45" /\ line.disc.s = "50.00") => u = 523

C20_DiscountedPrice ==
    vendor = "exaclair" =>
        /\ \A n \in DOMAIN items :
               /\ C20_Line(n).k = "item"
               /\ C20_HalfUp(C20_Line(n), items[n].unit_price)
               /\ C20_InCents(C20_Line(n), items[n].unit_price)
               /\ C20_Examples(C20_Line(n), items[n].unit_price)
        /\ pc = "done" =>
               \A pg \in DOMAIN doc :
                   (/\ Len(doc[pg].lines) >= 2
                    /\ doc[pg].lines[1].k = "hdr"
                    /\ doc[pg].lines[2].k = "item"
                    /\ doc[pg].lines[2].q # 0
                    /\ doc[pg].lines[2].tok) =>
                       \E n \in DOMAIN items : items[n].pg = pg /\ items[n].ln = 2

\* A record of the line with price 10.45 and discount 50.00, whose exact
\* unit price 5.225 lies half-way between two cents.
C20_Witness ==
    /\ vendor = "exaclair" /\ pc = "done"
    /\ \E n \in DOMAIN items :
           /\ C20_Line(n).price.s = "10.45"
           /\ C20_Line(n).disc.s = "50.00"
           /\ 2 * C20_N(C20_Line(n)) = (2 * items[n].unit_price - 1) * C20_M(C20_Line(n))
           /\ items[n].unit_price = 523


-----------------------------------------------------------------------------
(* C21: while the lines of a Rediform page are matched, the text they come *)
(* from is the page text with every maximal run of 3 or more identical     *)
(* characters replaced by one of them and every run of 1 or 2 characters   *)
(* kept, and every record holds the words of a line of that repaired text: *)
(* its item number is the first word and its amount the last word of the   *)
(* line.  As stated this is for the runs of every character; as amended,   *)
(* for the runs of every character but the line break, whose runs are      *)
(* kept.                                                                   *)
\* The maximal runs of s: the character and the length of each.
RECURSIVE C21_Runs(_)
C21_Runs(s) ==
    IF s = <<>> THEN <<>>
    ELSE <<[c |-> Head(s), n |-> RunLength(s)]>>
         \o C21_Runs(SubSeq(s, RunLength(s) + 1, Len(s)))

RECURSIVE C21_Written(_, _)
C21_Written(runs, kept) ==
    IF runs = <<>> THEN <<>>
    ELSE [k \in 1..(IF runs[1].n >= 3 /\ runs[1].c \notin kept THEN 1 ELSE runs[1].n)
             |-> runs[1].c]
         \o C21_Written(Tail(runs), kept)

C21_Repaired(s, kept) == C21_Written(C21_Runs(s), kept)

C21_Repair(kept) ==
    vendor = "rediform" =>
        /\ pc = "line" => cleaned = C21_Repaired(doc[p].text, kept)
        /\ \A n \in DOMAIN items :
               LET lines == SplitLines(C21_Repaired(doc[items[n].pg].text, kept))
               IN  /\ items[n].ln \in DOMAIN lines
                   /\ items[n].item_number = FirstWord(Strip(lines[items[n].ln]))
                   /\ items[n].total_amount = LastWord(Strip(lines[items[n].ln]))

C21_EveryRunRepaired == C21_Repair({})

C21_RunsRepaired == C21_Repair({"\n"})

\* A record of a page whose text was changed by the repair and keeps a run
\* of two characters.
C21_Witness ==
    /\ vendor = "rediform" /\ pc = "line"
    /\ cleaned # doc[p].text
    /\ \E n \in DOMAIN cleaned : n < Len(cleaned) /\ cleaned[n] = cleaned[n + 1]
    /\ \E n \in DOMAIN items : items[n].pg = p

-----------------------------------------------------------------------------
(* C22: Kenro letter-spaced repair.  A field is collapsed only when every  *)
(* character of it is separated from the next by whitespace (and three     *)
(* single-character-plus-space tokens in a row are found); the collapse     *)
(* removes the whitespace and puts one space at every lower-case to         *)
(* upper-case boundary and around every slash; a description of ordinary    *)
(* words of several characters keeps its word spacing.                      *)

\* Every character of s is separated from the next one by whitespace.
C22_Separated(s) ==
    /\ Len(s) > 1
    /\ \A n \in 1..(Len(s) - 1) : s[n] \notin Whitespace => s[n + 1] \in Whitespace

\* The words of s have two characters or more.
C22_Ordinary(s) ==
    \A n \in DOMAIN s :
        s[n] \notin Whitespace =>
            \/ n > 1 /\ s[n - 1] \notin Whitespace
            \/ n < Len(s) /\ s[n + 1] \notin Whitespace

\* The description cells a record is made of: the one of its row and the
\* ones of its continuation rows.
C22_Cells(r) ==
    LET table == doc[r.pg].tables[r.tb]
    IN  [n \in DOMAIN (<<r.ln>> \o KenroContinuation(table, r.ln)) |->
            KenroCell(table[(<<r.ln>> \o KenroContinuation(table, r.ln))[n]], 2)]

C22_Field(s, collapsed_if(_)) ==
    IF collapsed_if(s) /\ is_spaced(s) THEN despace_and_format_desc(s) ELSE s

C22_Descriptions(collapsed_if(_)) ==
    \A n \in DOMAIN items :
        items[n].product_description
            = JoinSpace([m \in DOMAIN C22_Cells(items[n]) |->
                            C22_Field(C22_Cells(items[n])[m], collapsed_if)])

\* C22 as stated: every description is the text of its cells, a cell
\* collapsed if and only if every character of it is separated by
\* whitespace and the three tokens are found.
C22_CollapsedOnlyWhenSeparated == C22_Descriptions(C22_Separated)

\* C22, the part that holds: a description cell of ordinary words of
\* several characters is stored with its word spacing unchanged, and a
\* cell found to be letter-spaced is stored collapsed.
C22_OrdinaryWordsKept ==
    /\ C22_Descriptions(LAMBDA s : TRUE)
    /\ \A n \in DOMAIN items :
           LET s == KenroCell(doc[items[n].pg].tables[items[n].tb][items[n].ln], 2)
           IN  C22_Ordinary(s) =>
                   SubSeq(items[n].product_description, 1, Len(s)) = s

\* C22: a record is there whose description cell holds single-character
\* words between ordinary words and was collapsed.
C22_Collapsed ==
    \E n \in DOMAIN items :
        LET s == KenroCell(doc[items[n].pg].tables[items[n].tb][items[n].ln], 2)
        IN  /\ ~C22_Separated(s) /\ is_spaced(s)
            /\ items[n].product_description # s

-----------------------------------------------------------------------------
(* C23: decode_cid_references replaces every marker (cid:N) whose code N   *)
(* is a key of the table by the table's character and leaves every other  *)
(* marker and all text outside the markers as they are; every item number, *)
(* sku, description, price and amount stored by the generic parser is      *)
(* taken from the decoded text of its cell.                                *)

\* The closing character of the marker that starts at character n of w;
\* 0 when no marker starts there.
C23_Closing(w, n) ==
    LET close == {m \in n..Len(w) : Char(w, m) = ")"}
        m == IF close = {} THEN 0 ELSE CHOOSE m \in close : \A k \in close : m <= k
    IN  IF /\ n + 4 <= Len(w) /\ SubSeq(w, n, n + 4) = "(cid:"
           /\ m > n + 5
           /\ \A k \in (n + 5)..(m - 1) : Char(w, k) \in DecimalDigits
        THEN m ELSE 0

\* A marker with a code of the table starts at character n of w.
C23_InTable(w, n) ==
    /\ C23_Closing(w, n) # 0
    /\ \E c \in CidCodes : ToString(c) = SubSeq(w, n + 5, C23_Closing(w, n) - 1)

\* What character n of w gives: the character of the table at the start of
\* such a marker, nothing inside one, itself anywhere else.
C23_At(w, n) ==
    IF C23_InTable(w, n)
    THEN CidChar(CHOOSE c \in CidCodes :
                     ToString(c) = SubSeq(w, n + 5, C23_Closing(w, n) - 1))
    ELSE IF \E k \in 1..(n - 1) : C23_InTable(w, k) /\ n <= C23_Closing(w, k)
    THEN ""
    ELSE Char(w, n)

RECURSIVE C23_UpTo(_, _)
C23_UpTo(w, n) == IF n = 0 THEN "" ELSE C23_UpTo(w, n - 1) \o C23_At(w, n)

C23_Replaced(w) == C23_UpTo(w, Len(w))

C23_Text(cell) == Normalised([n \in DOMAIN cell |-> C23_Replaced(cell[n])])

\* The number of the decoded text of a cell without "$" and ","; <<>> when
\* it is none.
C23_Number(cell) ==
    LET words == Strip(SelectSeq([n \in DOMAIN cell |-> Unmarked(C23_Replaced(cell[n]))],
                                 LAMBDA w : w # ""))
    IN  IF Len(words) = 1 /\ IsFloat(words[1]) THEN words ELSE <<>>

\* The record was read under the header by the names of its columns.
C23_ByName(r) ==
    \/ r.header[1].pg = r.pg /\ r.header[1].tb = r.tb
    \/ Len(doc[r.pg].tables[r.tb][r.ln]) = Len(GenericHeaderRow(r.header))

\* The cell of the record's row under the header word, or at position n of
\* the row cut to its cells.
C23_Cell(r, word, n) ==
    LET row == doc[r.pg].tables[r.tb][r.ln]
    IN  IF C23_ByName(r)
        THEN row[CHOOSE k \in DOMAIN row : GenericHeaderRow(r.header)[k] = <<word>>]
        ELSE IF n <= Len(TrimmedRow(row)) THEN TrimmedRow(row)[n] ELSE <<>>

\* The text of a cell as a field: none when it is empty or, under a named
\* column, None or null.
C23_Field(r, word, n) ==
    LET value == C23_Text(C23_Cell(r, word, n))
    IN  IF C23_ByName(r) /\ Len(value) = 1 /\ Lower(value[1]) \in {"none", "null"}
        THEN <<>> ELSE value

C23_Stored(r) ==
    LET item == extract_first_item_number(C23_Field(r, "Item#", 2))
        sku == C23_Field(r, "SKU", 3)
    IN  /\ r.item_number = IF item = <<>> THEN sku ELSE item
        /\ r.sku = IF sku = <<>> THEN item ELSE sku
        /\ r.product_description = C23_Field(r, "Description", 4)
        /\ r.unit_price = C23_Number(C23_Cell(r, "Price", 5))
        /\ r.total_amount = C23_Number(C23_Cell(r, "Amount", 6))

\* The words of the cells of the document.
C23_RowWords(row) == UNION {{row[c][n] : n \in DOMAIN row[c]} : c \in DOMAIN row}

C23_TableWords(table) == UNION {C23_RowWords(table[m]) : m \in DOMAIN table}

C23_Words ==
    UNION { UNION {C23_TableWords(doc[pg].tables[tb]) : tb \in DOMAIN doc[pg].tables} :
            pg \in DOMAIN doc }

C23_Decoded ==
    /\ \A w \in C23_Words :
           /\ decode_cid_references(w) = C23_Replaced(w)
           /\ (\A n \in 1..Len(w) : C23_Closing(w, n) = 0) => decode_cid_references(w) = w
    /\ \A n \in DOMAIN items : C23_Stored(items[n])

\* C23: the scan is over and a record is stored whose cells held a marker
\* with a code of the table and a marker with a code that is not in it.
C23_Witness ==
    /\ pc = "done"
    /\ \E n \in DOMAIN items :
           LET row == doc[items[n].pg].tables[items[n].tb][items[n].ln]
               words == C23_RowWords(row)
           IN  /\ \E w \in words : \E k \in 1..Len(w) : C23_InTable(w, k)
               /\ \E w \in words : \E k \in 1..Len(w) :
                      C23_Closing(w, k) # 0 /\ ~C23_InTable(w, k)
               /\ \E w \in words : decode_cid_references(w) # w

-----------------------------------------------------------------------------
(* C24: when the item-number field of a row of the generic parser holds a  *)
(* "/", the stored item_number is the text before the first "/", stripped; *)
(* a field without "/" is stored unchanged.  As amended: when that text    *)
(* is empty the field counts as missing, so a row read by column names     *)
(* stores its sku as item_number and a row read by position gives no       *)
(* record.                                                                 *)

\* The characters of a field.
RECURSIVE C24_Text(_)
C24_Text(field) == IF field = <<>> THEN "" ELSE Head(field) \o C24_Text(Tail(field))

C24_Slashes(t) == {n \in 1..Len(t) : Char(t, n) = "/"}

\* t without the spaces around it.
C24_Stripped(t) ==
    LET at == {n \in 1..Len(t) : Char(t, n) # " "}
    IN  IF at = {} THEN ""
        ELSE SubSeq(t, CHOOSE n \in at : \A m \in at : n <= m,
                       CHOOSE n \in at : \A m \in at : m <= n)

\* The text of t before its first "/", stripped.
C24_FirstSegment(t) ==
    C24_Stripped(SubSeq(t, 1, (CHOOSE n \in C24_Slashes(t) :
                                  \A m \in C24_Slashes(t) : n <= m) - 1))

\* The item-number field and the sku field of the row of a record.
C24_Item(r) == C24_Text(C23_Field(r, "Item#", 2))

C24_Sku(r) == C24_Text(C23_Field(r, "SKU", 3))

C24_Segment(r, stated) ==
    IF C24_Item(r) = "" THEN TRUE
    ELSE IF C24_Slashes(C24_Item(r)) = {}
    THEN C24_Text(r.item_number) = C24_Item(r)
    ELSE IF stated \/ C24_FirstSegment(C24_Item(r)) # ""
    THEN C24_Text(r.item_number) = C24_FirstSegment(C24_Item(r))
    ELSE C23_ByName(r) /\ C24_Text(r.item_number) = C24_Sku(r)

-----------------------------------------------------------------------------
(* C25: in the generic parser "$" and "," are taken out of a price or      *)
(* amount cell before it is converted; a cell whose remainder is no number *)
(* leaves the field absent, the record is stored with its other fields,    *)
(* and nothing is raised; a row whose quantity cell is no number gives no  *)
(* record.                                                                 *)

\* A cell holds one word that is a number written with digits, at most one
\* point and possibly a sign.
C25_Numeric(value) == Len(value) = 1 /\ IsNumeral(Unsigned(value[1]))

C25_Price(cell, price) ==
    IF C25_Numeric(PriceText(cell)) THEN price = PriceText(cell) ELSE price = <<>>

\* The rows the parser reads: the rows below the header of a table, and
\* every row of a table without header that follows one with a header.
C25_Rows ==
    UNION { UNION { {<<pg, tb, m>> : m \in (GenericHeaderIndex(doc[pg].tables[tb]) + 1)
                                          ..Len(doc[pg].tables[tb])} :
                    tb \in DOMAIN doc[pg].tables } : pg \in DOMAIN doc }

\* The cell of a row at the place of the header word: under it in a table
\* with a header, at position n of the row cut to its cells in a table
\* without.
C25_Cell(at, word, n) ==
    LET table == doc[at[1]].tables[at[2]]
        row == table[at[3]]
        h == GenericHeaderIndex(table)
    IN  IF h # 0
        THEN row[CHOOSE k \in DOMAIN row : table[h][k] = <<word>>]
        ELSE IF n <= Len(TrimmedRow(row)) THEN TrimmedRow(row)[n] ELSE <<>>

C25_Of(at) ==
    {n \in DOMAIN items :
        items[n].pg = at[1] /\ items[n].tb = at[2] /\ items[n].ln = at[3]}

\* The row holds an item number, a sku and a description of one plain word.
C25_Named(at) ==
    /\ C25_Cell(at, "Item#", 2) = <<"A1">>
    /\ C25_Cell(at, "SKU", 3) = <<"S1">>
    /\ C25_Cell(at, "Description", 4) = <<"Widget">>

C25_Parsing ==
    /\ pc # "raised"
    /\ \A n \in DOMAIN items :
           LET at == <<items[n].pg, items[n].tb, items[n].ln>>
           IN  /\ C25_Price(C25_Cell(at, "Price", 5), items[n].unit_price)
               /\ C25_Price(C25_Cell(at, "Amount", 6), items[n].total_amount)
    /\ pc = "done" =>
           \A at \in C25_Rows :
               IF C25_Numeric(Strip(C25_Cell(at, "Qty", 1)))
               THEN C25_Named(at) => Cardinality(C25_Of(at)) = 1
               ELSE C25_Of(at) = {}

\* No word of the document spells an infinity or a not-a-number.
C25_PlainWords ==
    \A w \in C23_Words : Lower(Unsigned(w)) \notin {"inf", "infinity", "nan"}

\* C25 as stated.
C25_ParseFailureNotCrash == C25_Parsing

\* C25, the part that holds: the statement for the documents none of whose
\* words spells an infinity or a not-a-number.
C25_PlainParseFailure == C25_PlainWords => C25_Parsing

\* C25: the scan is over and a record is stored without the price of its
\* row, whose price cell is no number.
C25_Absent ==
    /\ pc = "done"
    /\ \E n \in DOMAIN items :
           /\ items[n].unit_price = <<>>
           /\ Strip(C25_Cell(<<items[n].pg, items[n].tb, items[n].ln>>, "Price", 5)) # <<>>

-----------------------------------------------------------------------------
(* C26: once a record stands in the output sequence no later step of a     *)
(* scanner changes any of its fields; later lines only add records.        *)

\* The line ends the lines collected after a Format A item line.
C26_Ends(line) == line.k \in {"a", "b", "stop", "subtotal"}

\* The step adds the line under the cursor to the description of record n
\* and changes nothing else of it: the record is the last one, it was made
\* by the Montblanc scanner from a Format A line of the page being scanned,
\* and no line from the one after its item line to the cursor ends the
\* collection.
C26_Extended(n) ==
    /\ vendor = "montblanc"
    /\ n = Len(items)
    /\ Len(items') = Len(items)
    /\ items[n].pg = p
    /\ doc[p].lines[items[n].ln].k = "a"
    /\ i \in (items[n].ln + 1)..Len(doc[p].lines)
    /\ \A j \in (items[n].ln + 1)..i : ~C26_Ends(doc[p].lines[j])
    /\ doc[p].lines[i].k \notin {"blank", "meta"}
    /\ items'[n] = [items[n] EXCEPT !.product_description = @ \o <<Piece(p, i, "line")>>]

\* C26 as stated: every step leaves every stored record as it is.
C26_NeverChanged == [][Len(items') >= Len(items) /\ \A n \in DOMAIN items : items'[n] = items[n]]_vars

\* C26, amended: every step leaves every stored record as it is, except
\* that the Montblanc scanner adds the lines that follow a Format A item
\* line to the description of the record of that line, the last one stored.
C26_ChangedOnlyByContinuation == [][Len(items') >= Len(items) /\ \A n \in DOMAIN items : items'[n] = items[n] \/ C26_Extended(n)]_vars

\* C26: the scan is over and the record of a Format A line holds the line
\* that followed its item line.
C26_Witness ==
    /\ pc = "done"
    /\ \E n \in DOMAIN items :
           /\ vendor = "montblanc"
           /\ doc[items[n].pg].lines[items[n].ln].k = "a"
           /\ Len(items[n].product_description) = 2
           /\ items[n].product_description[2] = Piece(items[n].pg, items[n].ln + 1, "line")

-----------------------------------------------------------------------------
(* C27: parse_with_backorders returns in regular_items exactly the matched *)
(* lines with a shipped quantity above 0 and in backorder_items exactly    *)
(* the matched lines with a back order quantity above 0, each with that    *)
(* quantity as backorder_quantity; a line with both gives one record in    *)
(* each list, and the two agree on every field of the regular record.      *)

\* Line ln of page pg stands in the item section: a header line stands
\* above it on the page with no total line in between.
C27_InSection(pg, ln) ==
    \E h \in 1..(ln - 1) :
        /\ doc[pg].lines[h].k = "hdr"
        /\ \A j \in (h + 1)..(ln - 1) : doc[pg].lines[j].k # "end"

\* The lines of the item section that match one of the two formats.
C27_Matched ==
    UNION { {<<pg, ln>> : ln \in {n \in DOMAIN doc[pg].lines :
                                     /\ doc[pg].lines[n].k \in {"f1", "f2"}
                                     /\ C27_InSection(pg, n)}} :
            pg \in DOMAIN doc }

C27_Line(at) == doc[at[1]].lines[at[2]]

C27_Shipped(at) == IF C27_Line(at).k = "f1" THEN C27_Line(at).q ELSE 0

\* The records of the list made from the line.
C27_Of(list, at) == {n \in DOMAIN list : list[n].pg = at[1] /\ list[n].ln = at[2]}

\* The statement for the matched lines in the set.
C27_Split(lines) ==
    pc = "done" =>
        /\ \A at \in lines :
               /\ Cardinality(C27_Of(regular_items, at)) =
                      (IF C27_Shipped(at) > 0 THEN 1 ELSE 0)
               /\ Cardinality(C27_Of(backorder_items, at)) =
                      (IF C27_Line(at).bo > 0 THEN 1 ELSE 0)
               /\ \A n \in C27_Of(backorder_items, at) :
                      /\ backorder_items[n].backorder_quantity = C27_Line(at).bo
                      /\ \A m \in C27_Of(regular_items, at) :
                             \A key \in DOMAIN regular_items[m] :
                                 backorder_items[n][key] = regular_items[m][key]
        /\ \A n \in DOMAIN regular_items :
               <<regular_items[n].pg, regular_items[n].ln>> \in lines
        /\ \A n \in DOMAIN backorder_items :
               <<backorder_items[n].pg, backorder_items[n].ln>> \in lines

\* C27 as stated.
C27_ShippedAndBackordered == C27_Split(C27_Matched)

\* C27, the part that holds: the statement for the documents in which the
\* price groups of every matched line are floats and no line of Format 2
\* prints the back order quantity 0.
C27_SplitOfPricedLines ==
    (\A at \in C27_Matched :
        /\ C27_Line(at).bad = ""
        /\ C27_Line(at).k = "f2" => C27_Line(at).bo > 0)
    => C27_Split(C27_Matched)

\* C27: the scan is over and a line of Format 2 with the back order
\* quantity 0 has given a back order record.
C27_ZeroBackorder ==
    /\ pc = "done"
    /\ \E n \in DOMAIN backorder_items : backorder_items[n].backorder_quantity = 0

-----------------------------------------------------------------------------
(* C28: when nothing is found at the input path or what is found cannot be *)
(* opened, the command line run writes the error object (success false,    *)
(* error, error_type) to the output path, exits with code 1 and writes no  *)
(* success object; an error raised only while the vendor is detected never *)
(* makes the run fail.                                                     *)

\* The object written is an error object.
C28_ErrorObject ==
    /\ Len(output) = 1
    /\ DOMAIN output[1] = {"success", "error", "error_type"}
    /\ output[1].success = FALSE

\* The statement for the files in the set, and for the errors of the
\* detection of the vendor on a file that opens.
C28_Fatal(files) ==
    /\ pdf_file \in files =>
           /\ output = <<>> \/ C28_ErrorObject
           /\ pc = "done" => C28_ErrorObject /\ exit_code = 1
    /\ pdf_file = "pdf" /\ pc = "parse" => output = <<>> /\ exit_code = -1
    /\ pdf_file = "pdf" /\ pc = "done" /\ error \in DetectionErrors \ {""} =>
           /\ Len(output) = 1
           /\ output[1].success
           /\ exit_code = 0

\* C28 as stated.
C28_FatalError == C28_Fatal({"missing", "denied", "damaged"})

\* C28, the part that holds: the statement for a missing file and for a
\* file that the operating system refuses to open.
C28_FatalOperatingSystemError == C28_Fatal({"missing", "denied"})

\* C28: the run is over on a readable file that is no PDF document, with
\* exit code 1 and nothing written.
C28_NothingWritten ==
    /\ pc = "done"
    /\ pdf_file = "damaged"
    /\ exit_code = 1
    /\ output = <<>>

\* C28: the run ended well although the detection of the vendor raised.
C28_DetectionAlone ==
    /\ pc = "done"
    /\ pdf_file = "pdf"
    /\ error # ""
    /\ Len(output) = 1
    /\ output[1].success

-----------------------------------------------------------------------------
(* C29: when no scanner of a vendor takes the document, or the scanner     *)
(* returns nothing, and the generic parser finds nothing either, the run   *)
(* ends with the success object, item_count 0 and an empty raw_items, and  *)
(* never with the error object.                                            *)

\* The run is over and extract_line_items returned the empty list.
C29_NothingFound ==
    /\ pc = "done"
    /\ pdf_file = "pdf"
    /\ error # "OverflowError"
    /\ items = <<>>

C29_EmptyIsSuccess ==
    C29_NothingFound =>
        /\ Len(output) = 1
        /\ output[1].success
        /\ output[1].item_count = 0
        /\ output[1].raw_items = <<>>
        /\ exit_code = 0

\* C29: the run is over with the success object for no items, on a
\* document whose vendor has a scanner.
C29_Witness ==
    /\ C29_NothingFound
    /\ doc # <<>>
    /\ detect_vendor(text) \in CUSTOM_PARSERS
    /\ output = <<[success |-> TRUE, vendor |-> detect_vendor(text), table |-> <<>>,
                   raw_items |-> <<>>, item_count |-> 0]>>

-----------------------------------------------------------------------------
(* C30: a page without text, for the scanners of lines, or without tables, *)
(* for the scanners of tables and the generic parser, gives no record; the *)
(* scan goes on with the next page, and what is carried from page to page  *)
(* (the pending fragment of Luxury Brands, the last header of the generic  *)
(* parser) is as it was before the page.                                   *)

\* The scanner reads the text of the pages.
C30_ReadsText == vendor \in {"luxury_brands", "montblanc", "avanti", "chartpak"}

\* The page gives the scanner nothing to read.
C30_Yields(page) == IF C30_ReadsText THEN page.lines # <<>> ELSE page.tables # <<>>

\* The step is taken at the start of a page that gives nothing to read.
C30_AtEmptyPage == pc = "page" /\ p \in DOMAIN doc /\ ~C30_Yields(doc[p])

C30_PageSkipped == [][C30_AtEmptyPage => items' = items /\ p' = p + 1 /\ pc' = "page" /\ pending_item_number' = pending_item_number /\ last_header' = last_header]_vars

\* C30: the Luxury Brands scan is over; the fragment left by the first
\* page was used on the third, after a second page without text.
C30_Witness ==
    /\ pc = "done"
    /\ vendor = "luxury_brands"
    /\ Len(doc) = 3
    /\ doc[1].lines # <<>>
    /\ doc[1].lines[Len(doc[1].lines)].k = "ord"
    /\ doc[2].lines = <<>>
    /\ doc[3].lines # <<>>
    /\ doc[3].lines[1].k = "tail"
    /\ Len(items) = 1
    /\ items[1].pg = 3

----------------------------------------------------------------------------
(* C31: Itoya single-line grammar.  When the scanner, inside the item      *)
(* window, reads a data line that holds no end phrase, that passes the     *)
(* quantity gate and that is followed by a line which is not empty and     *)
(* does not start like an identifier, the iteration appends exactly one    *)
(* record: its quantity is the shipped count, item_number and sku are the  *)
(* code, unit_price and total_amount are the printed amounts read without  *)
(* their thousands separators, and the description is the line's own       *)
(* description followed by the continuation line.                          *)

C31_Line == doc[p].lines[i]

\* The amounts printed on the data lines, in hundredths.
C31_Amount(w) ==
    CASE w = "1,680.00" -> 168000
      [] w = "3,360.00" -> 336000
      [] w = "5.00" -> 500
      [] w = "0.00" -> 0

\* The cursor is on a data line inside the item window and a continuation
\* line follows it.
C31_AtDataLine ==
    /\ vendor = "itoya"
    /\ pc = "line"
    /\ in_items
    /\ i < Len(doc[p].lines)
    /\ C31_Line.k = "data"
    /\ doc[p].lines[i + 1].k \in {"hdr", "text"}

C31_Gate == C31_Line.q > 0 \/ include_zero_qty

\* The iteration appended the one record of the data line.
C31_Emitted ==
    /\ Len(items') = Len(items) + 1
    /\ SubSeq(items', 1, Len(items)) = items
    /\ LET r == items'[Len(items')]
       IN  /\ r.quantity = C31_Line.q
           /\ r.item_number = <<Piece(p, i, "code")>>
           /\ r.sku = r.item_number
           /\ r.unit_price = C31_Amount(C31_Line.price)
           /\ r.total_amount = C31_Amount(C31_Line.amount)
           /\ Len(r.product_description) >= 2
           /\ SubSeq(r.product_description, 1, 2) =
                  <<Piece(p, i, "desc"), Piece(p, i + 1, "line")>>

C31_SingleLineGrammar == [][C31_AtDataLine /\ ~C31_Line.end /\ C31_Gate => C31_Emitted]_vars

\* C31 as stated: every data line inside the item window that is followed
\* by a continuation line yields exactly one record.
C31_EveryDataLine == [][C31_AtDataLine => C31_Emitted]_vars

\* C31: the record of the line 10-9847-620 ... EACH 2 2 0 1,680.00 3,360.00
\* and of its continuation line has been emitted.
C31_Witness ==
    /\ vendor = "itoya"
    /\ \E n \in DOMAIN items :
          /\ items[n].quantity = 2
          /\ items[n].unit_price = 168000
          /\ items[n].total_amount = 336000
          /\ items[n].product_description =
                 <<Piece(items[n].pg, items[n].ln, "desc"),
                   Piece(items[n].pg, items[n].ln + 1, "line")>>
          /\ doc[items[n].pg].lines[items[n].ln + 1].k = "text"

----------------------------------------------------------------------------
(* C35: Itoya end sentinel and lookahead.  On a page, a line that holds an *)
(* end phrase (Subtotal, Total, Page:, Net Invoice) and stands after the   *)
(* header line is never part of a record's description as its second or    *)
(* third line, and no record is taken from a line that follows it on the   *)
(* page.                                                                   *)

\* Line ln of page pg holds an end phrase and stands inside the item
\* window: the header line stands before it on the page.
C35_Sentinel(pg, ln) ==
    /\ doc[pg].lines[ln].end
    /\ \E h \in 1..(ln - 1) : doc[pg].lines[h].k = "hdr"

C35_SentinelEndsTheScan ==
    vendor = "itoya" =>
        \A n \in DOMAIN items :
            /\ \A m \in DOMAIN items[n].product_description :
                  LET piece == items[n].product_description[m]
                  IN  piece.f = "line" => ~C35_Sentinel(piece.pg, piece.ln)
            /\ \A ln \in 1..(items[n].ln - 1) : ~C35_Sentinel(items[n].pg, ln)

----------------------------------------------------------------------------
(* C33: Uni-Ball repeating-header grammar.  Every header line followed two *)
(* lines later by a well-formed data line gives one record for that data   *)
(* line; in particular, when the scan is over and a record was taken from  *)
(* a data line that is directly followed by the header of the next item,   *)
(* that header's Customer Part ID line and a well-formed data line (its    *)
(* amounts are numbers and it passes the quantity gate), exactly one       *)
(* record has been taken from that next data line.                         *)

\* Line d of page pg is a well-formed data line, two lines after a header
\* line and one after a line of text.
C33_Item(pg, d) ==
    /\ d >= 3
    /\ d <= Len(doc[pg].lines)
    /\ doc[pg].lines[d - 2].k = "hdr"
    /\ doc[pg].lines[d - 1].k = "text"
    /\ doc[pg].lines[d].k = "data"
    /\ IsFloat(Unmarked(doc[pg].lines[d].price))
    /\ (doc[pg].lines[d].q > 0 \/ include_zero_qty)

C33_NextItemEmitted ==
    vendor = "uniball" /\ pc = "done" =>
        \A n \in DOMAIN items :
            C33_Item(items[n].pg, items[n].ln + 3) =>
                Cardinality({m \in DOMAIN items :
                                 /\ items[m].pg = items[n].pg
                                 /\ items[m].ln = items[n].ln + 3}) = 1

----------------------------------------------------------------------------
(* C34: JPT line parsing.  The last two words of an item line are price    *)
(* and amount; the word before them is the back-order quantity when it is  *)
(* numeric and the last word of the description when it is not.  So the    *)
(* description of the record taken from an item line holds every word of   *)
(* the line's description, in order, and nothing else: no code, no flag,   *)
(* no back-order quantity and no amount.                                   *)

C34_Line == doc[p].lines[i]

\* The words of the descriptions printed on the item lines.
C34_IsDescription(w) == w \in {"Blue", "Fountain", "Pen"}

\* The iteration takes a record from an item line inside the item section.
C34_Parsed ==
    /\ vendor = "jpt"
    /\ pc = "line"
    /\ i <= Len(doc[p].lines)
    /\ in_items
    /\ C34_Line.k = "line"
    /\ Len(items') = Len(items) + 1

C34_WholeDescription == [][C34_Parsed => items'[Len(items')].product_description = SelectSeq(C34_Line.parts, C34_IsDescription)]_vars

----------------------------------------------------------------------------
(* C32: the quantity gate only filters.  When a scanner has parsed a       *)
(* document with include_zero_qty true and then again with the switch      *)
(* off, the records of the second parse are the records of the first       *)
(* without those of quantity 0, in the same order.                         *)

C32_Kept(r) == r.quantity # 0

C32_GateOnlyFilters ==
    pc = "done" /\ results # <<>> =>
        items = SelectSeq(results[1].items, C32_Kept)

----------------------------------------------------------------------------
(* C36: no line is used twice.  The lines a record takes text from (the    *)
(* fragments of its identifier and the parts of its description) are       *)
(* taken by no other record of the output; in Tom's Studio the line that   *)
(* gave one record its identifier suffix is not the identifier prefix of   *)
(* the next record.                                                        *)

\* The lines, as <<page, line>>, that the record r takes text from.
C36_LinesOf(r) ==
    {<<r.item_number[n].pg, r.item_number[n].ln>> : n \in DOMAIN r.item_number}
    \cup {<<r.product_description[n].pg, r.product_description[n].ln>> :
              n \in DOMAIN r.product_description}

C36_NoLineUsedTwice ==
    \A m, n \in DOMAIN items :
        m # n => C36_LinesOf(items[m]) \cap C36_LinesOf(items[n]) = {}

----------------------------------------------------------------------------
(* C37: in the scanners of lines with a header line (Itoya, Tom's Studio,  *)
(* Lamy, Montblanc, Retro 51, TWSBI, Exaclair, Ameico, Chartpak, JPT) the  *)
(* scan of every page starts outside the item section and, for Lamy, with  *)
(* no format detected; and a record is appended only when a header line    *)
(* stands above the cursor on the page being scanned, so a page without a  *)
(* header line gives no record, whatever the pages before it held.         *)

\* The step enters the lines of a page.
C37_EntersPage == pc = "page" /\ pc' = "line"

\* A header line stands above the cursor on the page.
C37_HeaderAbove == \E h \in 1..(i - 1) : doc[p].lines[h].k = "hdr"

C37_ResetEveryPage == [][(C37_EntersPage => ~in_items' /\ invoice_format' = "") /\ (Len(items') > Len(items) => C37_HeaderAbove)]_vars

\* C37: the Itoya scan is over; the first page opened the item section
\* and never closed it, the second page holds an item line and no header
\* line, and the only records are those of the first page.
C37_Witness ==
    /\ vendor = "itoya"
    /\ pc = "done"
    /\ Len(doc) = 2
    /\ \E h \in DOMAIN doc[1].lines : doc[1].lines[h].k = "hdr"
    /\ \A h \in DOMAIN doc[1].lines : ~doc[1].lines[h].end
    /\ \E d \in DOMAIN doc[2].lines :
          doc[2].lines[d].k = "data" /\ doc[2].lines[d].q > 0
    /\ \A h \in DOMAIN doc[2].lines : doc[2].lines[h].k # "hdr"
    /\ \A n \in DOMAIN items : items[n].pg = 1

----------------------------------------------------------------------------
(* C38: every scanner terminates on every finite document.  In each loop   *)
(* that moves a cursor (Itoya, Luxury Brands, Tom's Studio, Lamy,          *)
(* Montblanc, Kenro, Plotter, TSL, Uni-Ball, Ameico) every step either     *)
(* moves the cursor forward or leaves the loop; a step of an inner loop    *)
(* (Montblanc's continuation lines, Ameico's skipped and collected lines)  *)
(* may also hand the cursor back to the outer loop, which it never moves   *)
(* backwards.  So every parse reaches its return (or raises).              *)

\* The scan stands in a loop over the lines or rows of a page.
C38_InLoop == pc \in {"line", "row", "cont", "skip", "collect"}

\* The step ends the loop: the next table, the next page, the return or an
\* exception follows.
C38_Leaves == pc' \in {"table", "page", "done", "raised"}

\* The step ends an inner loop and the outer loop goes on where it stands.
C38_HandsBack == pc \in {"cont", "skip", "collect"} /\ pc' = "line" /\ i' >= i

\* The step moves the cursor forward, ends the loop or hands the cursor back.
C38_Advances == C38_InLoop => i' > i \/ C38_Leaves \/ C38_HandsBack

C38_Terminates == [][C38_Advances]_vars /\ <>(pc \in {"done", "raised"})

\* An Ameico scan has returned after it appended a record, skipped a
\* zero-quantity item, failed to convert an amount and passed the header.
C38_Witness ==
    /\ pc = "done"
    /\ vendor = "ameico"
    /\ ~include_zero_qty
    /\ Len(doc) = 1
    /\ Len(items) = 1
    /\ \E a, b \in DOMAIN doc[1].lines :
          /\ a > items[1].ln /\ b > items[1].ln
          /\ doc[1].lines[a].k = "item" /\ doc[1].lines[a].q = 0
          /\ doc[1].lines[b].k = "item" /\ doc[1].lines[b].q # 0
          /\ ~doc[1].lines[b].ok

----------------------------------------------------------------------------
(* C39: the detector and the registry agree and the registry is read-only. *)
(* No step of a detection, a dispatch or a parse changes the registry;     *)
(* every identifier a detection step returns is the empty string or a key  *)
(* of the registry; and a dispatch that detects a vendor invokes that      *)
(* vendor's scanner.                                                       *)

\* The step leaves the vendor empty or sets it to a key of the registry.
C39_Registered == vendor' # vendor => vendor' \in DOMAIN registry

\* A dispatch step that detects a vendor invokes the scanner of that key.
C39_Dispatched == pc = "start" /\ vendor' # "" => Len(calls') = Len(calls) + 1 /\ calls'[Len(calls')].parser = vendor'

C39_DetectorAndRegistryAgree == [][registry' = registry /\ C39_Registered /\ C39_Dispatched]_vars

\* The vendor of the last branch of the detector was detected and its
\* scanner invoked through the registry.
C39_Witness ==
    /\ pc = "done"
    /\ vendor = "elite_accessories"
    /\ calls # <<>>
    /\ calls[1].parser = vendor
    /\ registry[vendor] = "EliteAccessoriesParser"
    /\ DOMAIN registry = CUSTOM_PARSERS

====
